---- MODULE Spec2Model ----
(***************************************************************************)
(* State-machine model of the seasonal crop-insurance contracts:           *)
(*   PolicyManager (season-aware, treasury-integrated, payout-engine       *)
(*   gated variant) and Treasury (manager-gated vault).                    *)
(* Every external call is one atomic transaction.  A call that reverts     *)
(* leaves the whole state as it was: it is a stuttering step, and the      *)
(* revert message it ends with is given by the call's ...Error operator.   *)
(* A call that succeeds applies all its writes at once.  Each action is    *)
(* the call with both outcomes.                                            *)
(***************************************************************************)
EXTENDS Integers, Sequences, FiniteSets, TLC

(***************************************************************************)
(* Bounds of the model.                                                    *)
(***************************************************************************)
MaxPolicies == 2      \* createPolicy is issued while nextPolicyId <= MaxPolicies
MaxSeason == 2        \* the season reset is issued while season < MaxSeason
MaxTime == 1          \* block.timestamp ranges over 0 .. MaxTime
MaxPayment == 2       \* msg.value and withdraw amounts range over 0 .. MaxPayment
MaxDepth == 2         \* fund releases that may be in flight inside one another
InitialFunds == 2     \* ether each farmer account holds at deployment

(***************************************************************************)
(* Accounts.  The deployer owns both contracts.                            *)
(***************************************************************************)
Owner == "owner"
FarmerA == "farmerA"
FarmerB == "farmerB"
PolicyManagerAddr == "policyManager"
TreasuryAddr == "treasury"
ZeroAddr == "zero"

EOAs == {Owner, FarmerA, FarmerB}
Farmers == {FarmerA, FarmerB}
Accounts == EOAs \cup {PolicyManagerAddr, TreasuryAddr, ZeroAddr}

(***************************************************************************)
(* enum PolicyStatus { Active, Paused, PayoutTriggered }                   *)
(***************************************************************************)
Active == "Active"
Paused == "Paused"
PayoutTriggered == "PayoutTriggered"
PolicyStatus == {Active, Paused, PayoutTriggered}

OK == "ok"

\* revert messages of PolicyManager
ErrOnlyOwner == "Only owner can call this"
ErrNoPolicy == "Policy does not exist"
ErrOnlyEngine == "Only PayoutEngine can call this"
ErrNotActive == "Policy is not active"
ErrDeadline == "Subscription deadline passed"
ErrPremium == "Incorrect premium amount"
ErrDuplicate == "Already subscribed to this policy this season"
ErrFullTwice == "Already subscribed to another policy this season"
ErrSubAfterFull == "Cannot subscribe to sub-policy after full-season"
ErrMarkNotActive == "Policy not active"
ErrResetState == "Policy must be completed or paused"
\* revert messages of Treasury
ErrNotManager == "Treasury: not authorized manager"
ErrZeroAddress == "Treasury: zero address"
ErrZeroDeposit == "Treasury: zero deposit"
ErrInsufficient == "Treasury: insufficient balance"
ErrZeroBalance == "Treasury: zero balance"
ErrTransfer == "Treasury: transfer failed"
ErrOwnable == "OwnableUnauthorizedAccount"
ErrReentrant == "ReentrancyGuardReentrantCall"

\* the two values of ReentrancyGuard's status word
NotEntered == "NotEntered"
Entered == "Entered"

VARIABLES
    policies,               \* mapping(uint256 => Policy)
    nextPolicyId,           \* uint256 nextPolicyId
    payoutEngine,           \* address payoutEngine
    farmerPolicies,         \* mapping(address => uint256[])
    farmerSeasonFullCover,  \* the <<farmer, season>> pairs mapped to true
    historicalSubscribers,  \* per policy and season, the subscribers archived at the reset
    authorizedManagers,     \* the addresses mapped to true in the Treasury
    farmerBalances,         \* mapping(address => uint256) of the Treasury
    totalCollected,         \* uint256 totalCollected of the Treasury
    reentrancyStatus,       \* status word of the Treasury's ReentrancyGuard
    inFlight,               \* the fund releases whose recipient is running, outermost first
    balance,                \* ether held by each account
    now                     \* block.timestamp

pmVars == <<policies, nextPolicyId, payoutEngine, farmerPolicies, farmerSeasonFullCover,
            historicalSubscribers>>
guardVars == <<reentrancyStatus, inFlight>>
trVars == <<authorizedManagers, farmerBalances, totalCollected, reentrancyStatus, inFlight>>
vars == <<policies, nextPolicyId, payoutEngine, farmerPolicies, farmerSeasonFullCover,
          historicalSubscribers, authorizedManagers, farmerBalances, totalCollected,
          reentrancyStatus, inFlight, balance, now>>

PolicyIds == 1 .. MaxPolicies
Times == 0 .. MaxTime
Payments == 0 .. MaxPayment
Seasons == 1 .. MaxSeason

(***************************************************************************)
(* A storage slot never written reads as zero: empty name, status Active   *)
(* (the first enum member), empty array, lastSubscribedSeason all zero.    *)
(***************************************************************************)
EmptyPolicy ==
    [id |-> 0, name |-> "", triggerThreshold |-> 0, premium |-> 0, season |-> 0,
     seasonStart |-> 0, seasonEnd |-> 0, subscriptionDeadline |-> 0,
     coversFullSeason |-> FALSE, status |-> Active, currentSubscribers |-> <<>>,
     lastSubscribedSeason |-> [a \in Farmers |-> 0]]

Init ==
    /\ policies = [i \in PolicyIds |-> EmptyPolicy]
    /\ nextPolicyId = 1
    /\ payoutEngine = ZeroAddr
    /\ farmerPolicies = [a \in Farmers |-> <<>>]
    /\ farmerSeasonFullCover = {}
    /\ historicalSubscribers = [i \in PolicyIds |-> [s \in Seasons |-> <<>>]]
    /\ authorizedManagers = {}
    /\ farmerBalances = [a \in Farmers |-> 0]
    /\ totalCollected = 0
    /\ reentrancyStatus = NotEntered
    /\ inFlight = <<>>
    /\ balance = [a \in Accounts |-> IF a \in Farmers THEN InitialFunds ELSE 0]
    /\ now = 0

(***************************************************************************)
(* Modifiers of PolicyManager.                                             *)
(***************************************************************************)
onlyOwner(caller) == caller = Owner

validPolicy(id) == id > 0 /\ id < nextPolicyId

\* faulty variant: the owner may act as payout engine too
onlyPayoutEngineOrOwner(caller) == caller = payoutEngine \/ caller = Owner

onlyPayoutEngine(caller) == caller = payoutEngine

FullCover(f, s) == <<f, s>> \in farmerSeasonFullCover

(***************************************************************************)
(* Treasury.deposit as called by `manager` with msg.value = v.             *)
(***************************************************************************)
onlyAuthorizedManager(caller) == caller \in authorizedManagers

\* faulty variant: the onlyAuthorizedManager modifier is missing
DepositErrorNoManagerCheck(manager, v) ==
    IF ~(v > 0) THEN ErrZeroDeposit ELSE OK

\* faulty variant: the require on msg.value is missing
DepositErrorNoZeroCheck(manager, v) ==
    IF ~onlyAuthorizedManager(manager) THEN ErrNotManager ELSE OK

DepositError(manager, v) ==
    IF ~onlyAuthorizedManager(manager) THEN ErrNotManager
    ELSE IF ~(v > 0) THEN ErrZeroDeposit
    ELSE OK

(***************************************************************************)
(* Faulty variants of subscribe's checks, used to show that the            *)
(* properties below depend on them.                                        *)
(***************************************************************************)
\* the lastSubscribedSeason check is missing
SubscribeErrorNoSeasonCheck(f, id, v) ==
    IF ~validPolicy(id) THEN ErrNoPolicy
    ELSE LET p == policies[id] IN
        IF p.status # Active THEN ErrNotActive
        ELSE IF ~(now <= p.subscriptionDeadline) THEN ErrDeadline
        ELSE IF ~(v = p.premium) THEN ErrPremium
        ELSE IF p.coversFullSeason /\ FullCover(f, p.season) THEN ErrFullTwice
        ELSE IF ~p.coversFullSeason /\ FullCover(f, p.season) THEN ErrSubAfterFull
        ELSE DepositError(PolicyManagerAddr, v)

\* the premium check accepts any payment of at least the premium
SubscribeErrorAtLeastPremium(f, id, v) ==
    IF ~validPolicy(id) THEN ErrNoPolicy
    ELSE LET p == policies[id] IN
        IF p.status # Active THEN ErrNotActive
        ELSE IF ~(now <= p.subscriptionDeadline) THEN ErrDeadline
        ELSE IF ~(v >= p.premium) THEN ErrPremium
        ELSE IF ~(p.lastSubscribedSeason[f] < p.season) THEN ErrDuplicate
        ELSE IF p.coversFullSeason /\ FullCover(f, p.season) THEN ErrFullTwice
        ELSE IF ~p.coversFullSeason /\ FullCover(f, p.season) THEN ErrSubAfterFull
        ELSE DepositError(PolicyManagerAddr, v)

\* the premium check accepts any payment of at most the premium
SubscribeErrorAtMostPremium(f, id, v) ==
    IF ~validPolicy(id) THEN ErrNoPolicy
    ELSE LET p == policies[id] IN
        IF p.status # Active THEN ErrNotActive
        ELSE IF ~(now <= p.subscriptionDeadline) THEN ErrDeadline
        ELSE IF ~(v <= p.premium) THEN ErrPremium
        ELSE IF ~(p.lastSubscribedSeason[f] < p.season) THEN ErrDuplicate
        ELSE IF p.coversFullSeason /\ FullCover(f, p.season) THEN ErrFullTwice
        ELSE IF ~p.coversFullSeason /\ FullCover(f, p.season) THEN ErrSubAfterFull
        ELSE DepositError(PolicyManagerAddr, v)

\* the status check is missing
SubscribeErrorNoStatusCheck(f, id, v) ==
    IF ~validPolicy(id) THEN ErrNoPolicy
    ELSE LET p == policies[id] IN
        IF ~(now <= p.subscriptionDeadline) THEN ErrDeadline
        ELSE IF ~(v = p.premium) THEN ErrPremium
        ELSE IF ~(p.lastSubscribedSeason[f] < p.season) THEN ErrDuplicate
        ELSE IF p.coversFullSeason /\ FullCover(f, p.season) THEN ErrFullTwice
        ELSE IF ~p.coversFullSeason /\ FullCover(f, p.season) THEN ErrSubAfterFull
        ELSE DepositError(PolicyManagerAddr, v)

\* the deadline check is strict: a call made exactly at the deadline is refused
SubscribeErrorStrictDeadline(f, id, v) ==
    IF ~validPolicy(id) THEN ErrNoPolicy
    ELSE LET p == policies[id] IN
        IF p.status # Active THEN ErrNotActive
        ELSE IF ~(now < p.subscriptionDeadline) THEN ErrDeadline
        ELSE IF ~(v = p.premium) THEN ErrPremium
        ELSE IF ~(p.lastSubscribedSeason[f] < p.season) THEN ErrDuplicate
        ELSE IF p.coversFullSeason /\ FullCover(f, p.season) THEN ErrFullTwice
        ELSE IF ~p.coversFullSeason /\ FullCover(f, p.season) THEN ErrSubAfterFull
        ELSE DepositError(PolicyManagerAddr, v)

\* the payment is compared with the premium before the status and the
\* deadline are looked at
SubscribeErrorPremiumFirst(f, id, v) ==
    IF ~validPolicy(id) THEN ErrNoPolicy
    ELSE LET p == policies[id] IN
        IF ~(v = p.premium) THEN ErrPremium
        ELSE IF p.status # Active THEN ErrNotActive
        ELSE IF ~(now <= p.subscriptionDeadline) THEN ErrDeadline
        ELSE IF ~(p.lastSubscribedSeason[f] < p.season) THEN ErrDuplicate
        ELSE IF p.coversFullSeason /\ FullCover(f, p.season) THEN ErrFullTwice
        ELSE IF ~p.coversFullSeason /\ FullCover(f, p.season) THEN ErrSubAfterFull
        ELSE DepositError(PolicyManagerAddr, v)

\* faulty variant: a payment of zero is not forwarded to the Treasury
SubscribeErrorSkipsZeroDeposit(f, id, v) ==
    IF ~validPolicy(id) THEN ErrNoPolicy
    ELSE LET p == policies[id] IN
        IF p.status # Active THEN ErrNotActive
        ELSE IF ~(now <= p.subscriptionDeadline) THEN ErrDeadline
        ELSE IF ~(v = p.premium) THEN ErrPremium
        ELSE IF ~(p.lastSubscribedSeason[f] < p.season) THEN ErrDuplicate
        ELSE IF p.coversFullSeason /\ FullCover(f, p.season) THEN ErrFullTwice
        ELSE IF ~p.coversFullSeason /\ FullCover(f, p.season) THEN ErrSubAfterFull
        ELSE IF v = 0 THEN OK
        ELSE DepositError(PolicyManagerAddr, v)

\* faulty variant: the season check is not strict
SubscribeErrorSeasonNotStrict(f, id, v) ==
    IF ~validPolicy(id) THEN ErrNoPolicy
    ELSE LET p == policies[id] IN
        IF p.status # Active THEN ErrNotActive
        ELSE IF ~(now <= p.subscriptionDeadline) THEN ErrDeadline
        ELSE IF ~(v = p.premium) THEN ErrPremium
        ELSE IF ~(p.lastSubscribedSeason[f] <= p.season) THEN ErrDuplicate
        ELSE IF p.coversFullSeason /\ FullCover(f, p.season) THEN ErrFullTwice
        ELSE IF ~p.coversFullSeason /\ FullCover(f, p.season) THEN ErrSubAfterFull
        ELSE DepositError(PolicyManagerAddr, v)

\* the else branch does not look at farmerSeasonFullCover
SubscribeErrorNoSubPolicyCheck(f, id, v) ==
    IF ~validPolicy(id) THEN ErrNoPolicy
    ELSE LET p == policies[id] IN
        IF p.status # Active THEN ErrNotActive
        ELSE IF ~(now <= p.subscriptionDeadline) THEN ErrDeadline
        ELSE IF ~(v = p.premium) THEN ErrPremium
        ELSE IF ~(p.lastSubscribedSeason[f] < p.season) THEN ErrDuplicate
        ELSE IF p.coversFullSeason /\ FullCover(f, p.season) THEN ErrFullTwice
        ELSE DepositError(PolicyManagerAddr, v)

(***************************************************************************)
(* PolicyManager.subscribe: the first failing require, in source order,    *)
(* then the outcome of the forwarded Treasury.deposit, whose revert        *)
(* propagates through the high-level call and undoes the writes made       *)
(* before it.                                                              *)
(***************************************************************************)
SubscribeError(f, id, v) ==
    IF ~validPolicy(id) THEN ErrNoPolicy
    ELSE LET p == policies[id] IN
        IF p.status # Active THEN ErrNotActive
        ELSE IF ~(now <= p.subscriptionDeadline) THEN ErrDeadline
        ELSE IF ~(v = p.premium) THEN ErrPremium
        ELSE IF ~(p.lastSubscribedSeason[f] < p.season) THEN ErrDuplicate
        ELSE IF p.coversFullSeason /\ FullCover(f, p.season) THEN ErrFullTwice
        ELSE IF ~p.coversFullSeason /\ FullCover(f, p.season) THEN ErrSubAfterFull
        ELSE DepositError(PolicyManagerAddr, v)

\* faulty variant (a lost update): the subscriber list is rebuilt from the
\* caller alone
SubscribedPolicyOverwrites(f, id) ==
    LET p == policies[id] IN
    [p EXCEPT !.lastSubscribedSeason[f] = p.season,
              !.currentSubscribers = <<f>>]

SubscribedPolicy(f, id) ==
    LET p == policies[id] IN
    [p EXCEPT !.lastSubscribedSeason[f] = p.season,
              !.currentSubscribers = Append(p.currentSubscribers, f)]

SubscribedFullCover(f, id) ==
    LET p == policies[id] IN
    IF p.coversFullSeason THEN farmerSeasonFullCover \cup {<<f, p.season>>}
    ELSE farmerSeasonFullCover

\* faulty variant: the signal is emitted before the checks, whatever they say
SubscribedSignalsOnAttempt(f, id, v) ==
    IF validPolicy(id)
    THEN <<[farmer |-> f, policyId |-> id, season |-> policies[id].season]>>
    ELSE <<>>

\* the Subscribed signals of the call subscribe(id) by f paying v: the emit is
\* the last statement, reached only when nothing before it reverted, and a
\* revert discards the log with the rest
SubscribedSignals(f, id, v) ==
    IF SubscribeError(f, id, v) = OK
    THEN <<[farmer |-> f, policyId |-> id, season |-> policies[id].season]>>
    ELSE <<>>

\* the revert messages of the forwarded Treasury.deposit
DepositErrors == {ErrNotManager, ErrZeroDeposit}

\* faulty variant: a failure of the forwarded deposit is caught instead of
\* propagated, the writes made before it stay and the payment goes back
SubscribeDepositCaught(f, id, v) ==
    /\ balance[f] >= v
    /\ IF SubscribeError(f, id, v) \in {OK} \cup DepositErrors
       THEN /\ policies' = [policies EXCEPT ![id] = SubscribedPolicy(f, id)]
            /\ farmerSeasonFullCover' = SubscribedFullCover(f, id)
            /\ farmerPolicies' = [farmerPolicies EXCEPT ![f] = Append(@, id)]
            /\ IF SubscribeError(f, id, v) = OK
               THEN /\ farmerBalances' = [farmerBalances EXCEPT ![f] = @ + v]
                    /\ totalCollected' = totalCollected + v
                    /\ balance' = [balance EXCEPT ![f] = @ - v, ![TreasuryAddr] = @ + v]
               ELSE UNCHANGED <<farmerBalances, totalCollected, balance>>
            /\ UNCHANGED <<nextPolicyId, payoutEngine, historicalSubscribers,
                           authorizedManagers, guardVars, now>>
       ELSE UNCHANGED vars

(***************************************************************************)
(* PolicyManager.subscribe with msg.value = v: the writes of lines 132-141 *)
(* and the forwarded deposit take effect together when no check fails,     *)
(* the deposit's checks included (the deposit is a high-level call, so its *)
(* revert is the revert of the whole transaction).                         *)
(***************************************************************************)
\* faulty variant: the premium is credited in the Treasury's records but the
\* ether stays in the PolicyManager
SubscribeKeepsPremium(f, id, v) ==
    /\ balance[f] >= v
    /\ IF SubscribeError(f, id, v) = OK
       THEN /\ policies' = [policies EXCEPT ![id] = SubscribedPolicy(f, id)]
            /\ farmerSeasonFullCover' = SubscribedFullCover(f, id)
            /\ farmerPolicies' = [farmerPolicies EXCEPT ![f] = Append(@, id)]
            /\ farmerBalances' = [farmerBalances EXCEPT ![f] = @ + v]
            /\ totalCollected' = totalCollected + v
            /\ balance' = [balance EXCEPT ![f] = @ - v, ![PolicyManagerAddr] = @ + v]
            /\ UNCHANGED <<nextPolicyId, payoutEngine, historicalSubscribers,
                           authorizedManagers, guardVars, now>>
       ELSE UNCHANGED vars

Subscribe(f, id, v) ==
    /\ balance[f] >= v
    /\ IF SubscribeError(f, id, v) = OK
       THEN /\ policies' = [policies EXCEPT ![id] = SubscribedPolicy(f, id)]
            /\ farmerSeasonFullCover' = SubscribedFullCover(f, id)
            /\ farmerPolicies' = [farmerPolicies EXCEPT ![f] = Append(@, id)]
            /\ farmerBalances' = [farmerBalances EXCEPT ![f] = @ + v]
            /\ totalCollected' = totalCollected + v
            /\ balance' = [balance EXCEPT ![f] = @ - v, ![TreasuryAddr] = @ + v]
            /\ UNCHANGED <<nextPolicyId, payoutEngine, historicalSubscribers,
                           authorizedManagers, guardVars, now>>
       ELSE UNCHANGED vars

(***************************************************************************)
(* PolicyManager.setPayoutEngine                                           *)
(***************************************************************************)
SetPayoutEngineError(caller) ==
    IF ~onlyOwner(caller) THEN ErrOnlyOwner ELSE OK

SetPayoutEngine(caller, engine) ==
    /\ IF SetPayoutEngineError(caller) = OK
       THEN /\ payoutEngine' = engine
            /\ UNCHANGED <<policies, nextPolicyId, farmerPolicies, farmerSeasonFullCover,
                                historicalSubscribers, trVars, balance, now>>
       ELSE UNCHANGED vars

(***************************************************************************)
(* PolicyManager.createPolicy                                              *)
(***************************************************************************)
CreatePolicyError(caller) ==
    IF ~onlyOwner(caller) THEN ErrOnlyOwner ELSE OK

\* faulty variant: the status of the new policy is not set to Active
CreatedPolicyPaused(name, threshold, premium, season, seasonStart, seasonEnd, deadline, full) ==
    [policies[nextPolicyId] EXCEPT
        !.id = nextPolicyId, !.name = name, !.triggerThreshold = threshold,
        !.premium = premium, !.season = season, !.seasonStart = seasonStart,
        !.seasonEnd = seasonEnd, !.subscriptionDeadline = deadline,
        !.coversFullSeason = full, !.status = Paused]

CreatedPolicy(name, threshold, premium, season, seasonStart, seasonEnd, deadline, full) ==
    [policies[nextPolicyId] EXCEPT
        !.id = nextPolicyId, !.name = name, !.triggerThreshold = threshold,
        !.premium = premium, !.season = season, !.seasonStart = seasonStart,
        !.seasonEnd = seasonEnd, !.subscriptionDeadline = deadline,
        !.coversFullSeason = full, !.status = Active]

\* faulty variant: the counter advances by two, leaving an id without a policy
CreatePolicySkipsId(caller, name, threshold, premium, season, seasonStart, seasonEnd, deadline, full) ==
    /\ nextPolicyId <= MaxPolicies
    /\ IF CreatePolicyError(caller) = OK
       THEN /\ policies' = [policies EXCEPT ![nextPolicyId] =
                        CreatedPolicy(name, threshold, premium, season, seasonStart,
                                      seasonEnd, deadline, full)]
            /\ nextPolicyId' = nextPolicyId + 2
            /\ UNCHANGED <<payoutEngine, farmerPolicies, farmerSeasonFullCover,
                                historicalSubscribers, trVars, balance, now>>
       ELSE UNCHANGED vars

CreatePolicy(caller, name, threshold, premium, season, seasonStart, seasonEnd, deadline, full) ==
    /\ nextPolicyId <= MaxPolicies
    /\ IF CreatePolicyError(caller) = OK
       THEN /\ policies' = [policies EXCEPT ![nextPolicyId] =
                        CreatedPolicy(name, threshold, premium, season, seasonStart,
                                      seasonEnd, deadline, full)]
            /\ nextPolicyId' = nextPolicyId + 1
            /\ UNCHANGED <<payoutEngine, farmerPolicies, farmerSeasonFullCover,
                                historicalSubscribers, trVars, balance, now>>
       ELSE UNCHANGED vars

(***************************************************************************)
(* PolicyManager.markPolicyAsPayout: validPolicy runs before               *)
(* onlyPayoutEngine.                                                       *)
(***************************************************************************)
\* faulty variant: the onlyPayoutEngine modifier is missing
MarkPolicyAsPayoutErrorNoEngineCheck(caller, id) ==
    IF ~validPolicy(id) THEN ErrNoPolicy
    ELSE IF policies[id].status # Active THEN ErrMarkNotActive
    ELSE OK

MarkPolicyAsPayoutError(caller, id) ==
    IF ~validPolicy(id) THEN ErrNoPolicy
    ELSE IF ~onlyPayoutEngine(caller) THEN ErrOnlyEngine
    ELSE IF policies[id].status # Active THEN ErrMarkNotActive
    ELSE OK

SetStatus(id, status) == [policies EXCEPT ![id].status = status]

\* faulty variant: marking a policy sends every current subscriber the premium
\* out of the Treasury's funds
MarkPolicyAsPayoutPaysOut(caller, id) ==
    /\ IF MarkPolicyAsPayoutError(caller, id) = OK
       THEN /\ policies' = SetStatus(id, PayoutTriggered)
            /\ balance' =
                  [a \in DOMAIN balance |->
                      IF a = TreasuryAddr
                      THEN balance[a] - policies[id].premium
                                          * Len(policies[id].currentSubscribers)
                      ELSE IF \E i \in DOMAIN policies[id].currentSubscribers :
                                 policies[id].currentSubscribers[i] = a
                      THEN balance[a] + policies[id].premium
                      ELSE balance[a]]
            /\ UNCHANGED <<nextPolicyId, payoutEngine, farmerPolicies, farmerSeasonFullCover,
                                historicalSubscribers, trVars, now>>
       ELSE UNCHANGED vars

\* faulty variant: the status is written before the status check, whose failure
\* is reported without undoing the write
MarkPolicyAsPayoutWriteBeforeCheck(caller, id) ==
    /\ IF MarkPolicyAsPayoutError(caller, id) \in {OK, ErrMarkNotActive}
       THEN /\ policies' = SetStatus(id, PayoutTriggered)
            /\ UNCHANGED <<nextPolicyId, payoutEngine, farmerPolicies, farmerSeasonFullCover,
                                historicalSubscribers, trVars, balance, now>>
       ELSE UNCHANGED vars

MarkPolicyAsPayout(caller, id) ==
    /\ IF MarkPolicyAsPayoutError(caller, id) = OK
       THEN /\ policies' = SetStatus(id, PayoutTriggered)
            /\ UNCHANGED <<nextPolicyId, payoutEngine, farmerPolicies, farmerSeasonFullCover,
                                historicalSubscribers, trVars, balance, now>>
       ELSE UNCHANGED vars

(***************************************************************************)
(* PolicyManager.pausePolicy / resumePolicy: onlyOwner runs before         *)
(* validPolicy; the status is set whatever it was.                         *)
(***************************************************************************)
\* faulty variant: only an Active policy can be paused
PausePolicyErrorOnlyActive(caller, id) ==
    IF ~onlyOwner(caller) THEN ErrOnlyOwner
    ELSE IF ~validPolicy(id) THEN ErrNoPolicy
    ELSE IF policies[id].status # Active THEN ErrNotActive
    ELSE OK

\* faulty variant: the onlyOwner modifier is missing
PausePolicyErrorNoOwnerCheck(caller, id) ==
    IF ~validPolicy(id) THEN ErrNoPolicy ELSE OK

PausePolicyError(caller, id) ==
    IF ~onlyOwner(caller) THEN ErrOnlyOwner
    ELSE IF ~validPolicy(id) THEN ErrNoPolicy
    ELSE OK

PausePolicy(caller, id) ==
    /\ IF PausePolicyError(caller, id) = OK
       THEN /\ policies' = SetStatus(id, Paused)
            /\ UNCHANGED <<nextPolicyId, payoutEngine, farmerPolicies, farmerSeasonFullCover,
                                historicalSubscribers, trVars, balance, now>>
       ELSE UNCHANGED vars

ResumePolicyError(caller, id) ==
    IF ~onlyOwner(caller) THEN ErrOnlyOwner
    ELSE IF ~validPolicy(id) THEN ErrNoPolicy
    ELSE OK

ResumePolicy(caller, id) ==
    /\ IF ResumePolicyError(caller, id) = OK
       THEN /\ policies' = SetStatus(id, Active)
            /\ UNCHANGED <<nextPolicyId, payoutEngine, farmerPolicies, farmerSeasonFullCover,
                                historicalSubscribers, trVars, balance, now>>
       ELSE UNCHANGED vars

(***************************************************************************)
(* PolicyManager.resetPolicyForNewSeason                                   *)
(***************************************************************************)
\* faulty variant: the status is not checked
ResetErrorNoStatusCheck(caller, id) ==
    IF ~onlyOwner(caller) THEN ErrOnlyOwner
    ELSE IF ~validPolicy(id) THEN ErrNoPolicy
    ELSE OK

ResetError(caller, id) ==
    IF ~onlyOwner(caller) THEN ErrOnlyOwner
    ELSE IF ~validPolicy(id) THEN ErrNoPolicy
    ELSE IF ~(policies[id].status = PayoutTriggered \/ policies[id].status = Paused)
         THEN ErrResetState
    ELSE OK

\* faulty variant: the reset reopens the subscriptions until the latest time
ResetPolicyExtendsDeadline(id) ==
    LET p == policies[id] IN
    [p EXCEPT !.currentSubscribers = <<>>, !.season = p.season + 1, !.status = Active,
              !.subscriptionDeadline = MaxTime]

\* faulty variant: the reset keeps the subscriber list
ResetPolicyKeepsSubscribers(id) ==
    LET p == policies[id] IN
    [p EXCEPT !.season = p.season + 1, !.status = Active]

\* faulty variant: the reset skips a season
ResetPolicySkipsSeason(id) ==
    LET p == policies[id] IN
    [p EXCEPT !.currentSubscribers = <<>>, !.season = p.season + 2, !.status = Active]

ResetPolicy(id) ==
    LET p == policies[id] IN
    [p EXCEPT !.currentSubscribers = <<>>, !.season = p.season + 1, !.status = Active]

(***************************************************************************)
(* The season archive behind getHistoricalSubscribers(id, season).  The    *)
(* contract body that keeps it is not among the sources (only its test     *)
(* is); it is modelled as specified: the reset stores the subscriber list  *)
(* of the season that ends under (id, season) before clearing it.          *)
(***************************************************************************)
ArchivedSubscribers(id) ==
    [historicalSubscribers EXCEPT ![id][policies[id].season] = policies[id].currentSubscribers]

getHistoricalSubscribers(id, season) == historicalSubscribers[id][season]

\* faulty variant: the reset prunes the policy from every farmer's history
ResetPolicyForNewSeasonPrunesHistory(caller, id) ==
    /\ IF ResetError(caller, id) = OK
       THEN /\ policies[id].season < MaxSeason
            /\ historicalSubscribers' = ArchivedSubscribers(id)
            /\ policies' = [policies EXCEPT ![id] = ResetPolicy(id)]
            /\ farmerPolicies' =
                  [f \in DOMAIN farmerPolicies |->
                      SelectSeq(farmerPolicies[f], LAMBDA x : x # id)]
            /\ UNCHANGED <<nextPolicyId, payoutEngine, farmerSeasonFullCover,
                                trVars, balance, now>>
       ELSE UNCHANGED vars

\* faulty variant: the reset clears the full-cover flags of the season it closes
ResetPolicyForNewSeasonClearsFlags(caller, id) ==
    /\ IF ResetError(caller, id) = OK
       THEN /\ policies[id].season < MaxSeason
            /\ historicalSubscribers' = ArchivedSubscribers(id)
            /\ policies' = [policies EXCEPT ![id] = ResetPolicy(id)]
            /\ farmerSeasonFullCover' =
                  {fs \in farmerSeasonFullCover : fs[2] # policies[id].season}
            /\ UNCHANGED <<nextPolicyId, payoutEngine, farmerPolicies,
                                trVars, balance, now>>
       ELSE UNCHANGED vars

\* faulty variant: the archive is taken after the subscriber list is cleared
ResetPolicyForNewSeasonArchivesLate(caller, id) ==
    /\ IF ResetError(caller, id) = OK
       THEN /\ policies[id].season < MaxSeason
            /\ historicalSubscribers' =
                  [historicalSubscribers EXCEPT ![id][policies[id].season] =
                      ResetPolicy(id).currentSubscribers]
            /\ policies' = [policies EXCEPT ![id] = ResetPolicy(id)]
            /\ UNCHANGED <<nextPolicyId, payoutEngine, farmerPolicies, farmerSeasonFullCover,
                                trVars, balance, now>>
       ELSE UNCHANGED vars

ResetPolicyForNewSeason(caller, id) ==
    /\ IF ResetError(caller, id) = OK
       THEN /\ policies[id].season < MaxSeason
            /\ historicalSubscribers' = ArchivedSubscribers(id)
            /\ policies' = [policies EXCEPT ![id] = ResetPolicy(id)]
            /\ UNCHANGED <<nextPolicyId, payoutEngine, farmerPolicies, farmerSeasonFullCover,
                                trVars, balance, now>>
       ELSE UNCHANGED vars

(***************************************************************************)
(* PolicyManager.getFarmerPolicies (a view)                                *)
(***************************************************************************)
getFarmerPolicies(f) == farmerPolicies[f]

(***************************************************************************)
(* Treasury.setManager (Ownable.onlyOwner; the deployer is the owner)      *)
(***************************************************************************)
treasuryOnlyOwner(caller) == caller = Owner

SetManagerError(caller, manager) ==
    IF ~treasuryOnlyOwner(caller) THEN ErrOwnable
    ELSE IF manager = ZeroAddr THEN ErrZeroAddress
    ELSE OK

SetManager(caller, manager, enabled) ==
    /\ IF SetManagerError(caller, manager) = OK
       THEN /\ authorizedManagers' =
                      IF enabled THEN authorizedManagers \cup {manager}
                      ELSE authorizedManagers \ {manager}
            /\ UNCHANGED <<pmVars, farmerBalances, totalCollected, guardVars, balance, now>>
       ELSE UNCHANGED vars

(***************************************************************************)
(* Treasury.deposit called directly by an account.                         *)
(***************************************************************************)
\* faulty variant: the deposit is credited to the farmer but not counted in
\* totalCollected
DepositNotCounted(caller, farmer, v) ==
    /\ balance[caller] >= v
    /\ IF DepositError(caller, v) = OK
       THEN /\ farmerBalances' = [farmerBalances EXCEPT ![farmer] = @ + v]
            /\ balance' = [balance EXCEPT ![caller] = @ - v, ![TreasuryAddr] = @ + v]
            /\ UNCHANGED <<pmVars, authorizedManagers, totalCollected, guardVars, now>>
       ELSE UNCHANGED vars

Deposit(caller, farmer, v) ==
    /\ balance[caller] >= v
    /\ IF DepositError(caller, v) = OK
       THEN /\ farmerBalances' = [farmerBalances EXCEPT ![farmer] = @ + v]
            /\ totalCollected' = totalCollected + v
            /\ balance' = [balance EXCEPT ![caller] = @ - v, ![TreasuryAddr] = @ + v]
            /\ UNCHANGED <<pmVars, authorizedManagers, guardVars, now>>
       ELSE UNCHANGED vars

(***************************************************************************)
(* The low-level call to.call{value: amount}(""): an account without code  *)
(* (the zero address included) accepts it, PolicyManager accepts it        *)
(* through receive(), the Treasury itself has neither receive nor          *)
(* fallback and rejects it.                                                *)
(***************************************************************************)
TransferSucceeds(to) == to \in EOAs \cup {PolicyManagerAddr, ZeroAddr}

(***************************************************************************)
(* ReentrancyGuard.nonReentrant: the call is refused while a guarded call  *)
(* of the Treasury is running.                                             *)
(***************************************************************************)
nonReentrant == reentrancyStatus = NotEntered

\* faulty variant: the onlyOwner modifier is missing
WithdrawErrorNoOwnerCheck(caller, to, amount) ==
    IF ~nonReentrant THEN ErrReentrant
    ELSE IF to = ZeroAddr THEN ErrZeroAddress
    ELSE IF ~(balance[TreasuryAddr] >= amount) THEN ErrInsufficient
    ELSE IF ~TransferSucceeds(to) THEN ErrTransfer
    ELSE OK

\* faulty variant: the nonReentrant modifier is missing
WithdrawErrorNoReentrancyGuard(caller, to, amount) ==
    IF ~treasuryOnlyOwner(caller) THEN ErrOwnable
    ELSE IF to = ZeroAddr THEN ErrZeroAddress
    ELSE IF ~(balance[TreasuryAddr] >= amount) THEN ErrInsufficient
    ELSE IF ~TransferSucceeds(to) THEN ErrTransfer
    ELSE OK

WithdrawError(caller, to, amount) ==
    IF ~treasuryOnlyOwner(caller) THEN ErrOwnable
    ELSE IF ~nonReentrant THEN ErrReentrant
    ELSE IF to = ZeroAddr THEN ErrZeroAddress
    ELSE IF ~(balance[TreasuryAddr] >= amount) THEN ErrInsufficient
    ELSE IF ~TransferSucceeds(to) THEN ErrTransfer
    ELSE OK

Released(to, amount) ==
    [balance EXCEPT ![TreasuryAddr] = @ - amount, ![to] = @ + amount]

\* faulty variant: the withdrawal is debited from totalCollected
WithdrawDebitsTotal(caller, to, amount) ==
    /\ IF WithdrawError(caller, to, amount) = OK
       THEN /\ balance' = Released(to, amount)
            /\ totalCollected' = totalCollected - amount
            /\ UNCHANGED <<pmVars, authorizedManagers, farmerBalances, guardVars, now>>
       ELSE UNCHANGED vars

Withdraw(caller, to, amount) ==
    /\ IF WithdrawError(caller, to, amount) = OK
       THEN /\ balance' = Released(to, amount)
            /\ UNCHANGED <<pmVars, trVars, now>>
       ELSE UNCHANGED vars

WithdrawAllError(caller, to) ==
    IF ~treasuryOnlyOwner(caller) THEN ErrOwnable
    ELSE IF ~nonReentrant THEN ErrReentrant
    ELSE IF ~(balance[TreasuryAddr] > 0) THEN ErrZeroBalance
    ELSE IF ~TransferSucceeds(to) THEN ErrTransfer
    ELSE OK

WithdrawAll(caller, to) ==
    /\ IF WithdrawAllError(caller, to) = OK
       THEN /\ balance' = Released(to, balance[TreasuryAddr])
            /\ UNCHANGED <<pmVars, trVars, now>>
       ELSE UNCHANGED vars

(***************************************************************************)
(* withdraw / withdrawAll to an account whose code is not known, step by   *)
(* step.  The call passes onlyOwner and nonReentrant, the guard is set,    *)
(* the requires pass and to.call{value: amount}("") hands the ether and    *)
(* the control to the recipient (WithdrawBegin, WithdrawAllBegin).  While  *)
(* the recipient runs, any account may call the Treasury again.  When the  *)
(* recipient returns the release is complete and the guard is cleared;     *)
(* when it reverts, the call returns false, require(success) fails and     *)
(* everything done since the call was entered is undone (ReceiveReturns).  *)
(***************************************************************************)
Frame(to, amount) == [to |-> to, amount |-> amount, before |-> balance]

WithdrawBegin(caller, to, amount) ==
    /\ to \in EOAs
    /\ Len(inFlight) < MaxDepth
    /\ IF WithdrawError(caller, to, amount) = OK
       THEN /\ reentrancyStatus' = Entered
            /\ balance' = Released(to, amount)
            /\ inFlight' = Append(inFlight, Frame(to, amount))
            /\ UNCHANGED <<pmVars, authorizedManagers, farmerBalances, totalCollected, now>>
       ELSE UNCHANGED vars

WithdrawAllBegin(caller, to) ==
    /\ to \in EOAs
    /\ Len(inFlight) < MaxDepth
    /\ IF WithdrawAllError(caller, to) = OK
       THEN /\ reentrancyStatus' = Entered
            /\ balance' = Released(to, balance[TreasuryAddr])
            /\ inFlight' = Append(inFlight, Frame(to, balance[TreasuryAddr]))
            /\ UNCHANGED <<pmVars, authorizedManagers, farmerBalances, totalCollected, now>>
       ELSE UNCHANGED vars

\* faulty variant: a rejected release is not rolled back
ReceiveReturnsKeepsDebit(success) ==
    /\ inFlight # <<>>
    /\ inFlight' = SubSeq(inFlight, 1, Len(inFlight) - 1)
    /\ reentrancyStatus' = NotEntered
    /\ balance' = balance
    /\ UNCHANGED <<pmVars, authorizedManagers, farmerBalances, totalCollected, now>>

ReceiveReturns(success) ==
    /\ inFlight # <<>>
    /\ inFlight' = SubSeq(inFlight, 1, Len(inFlight) - 1)
    /\ reentrancyStatus' = NotEntered
    /\ balance' = IF success THEN balance ELSE inFlight[Len(inFlight)].before
    /\ UNCHANGED <<pmVars, authorizedManagers, farmerBalances, totalCollected, now>>

(***************************************************************************)
(* PolicyManager.getPolicyDetails (view): the stored record with the       *)
(* length of currentSubscribers.                                           *)
(***************************************************************************)
GetPolicyDetailsError(id) ==
    IF ~validPolicy(id) THEN ErrNoPolicy ELSE OK

getPolicyDetails(id) ==
    LET p == policies[id] IN
    [name |-> p.name, threshold |-> p.triggerThreshold, premium |-> p.premium,
     status |-> p.status, season |-> p.season, seasonStart |-> p.seasonStart,
     seasonEnd |-> p.seasonEnd, subscriptionDeadline |-> p.subscriptionDeadline,
     coversFullSeason |-> p.coversFullSeason,
     subscriberCount |-> Len(p.currentSubscribers)]

(***************************************************************************)
(* PolicyManager.receive: a plain transfer of ether to the contract is     *)
(* accepted and recorded nowhere.                                          *)
(***************************************************************************)
Receive(sender, v) ==
    /\ balance[sender] >= v
    /\ balance' = [balance EXCEPT ![sender] = @ - v, ![PolicyManagerAddr] = @ + v]
    /\ UNCHANGED <<pmVars, trVars, now>>

(***************************************************************************)
(* Passage of block time.                                                  *)
(***************************************************************************)
Tick ==
    /\ now < MaxTime
    /\ now' = now + 1
    /\ UNCHANGED <<pmVars, trVars, balance>>

(***************************************************************************)
(* Inputs of the calls.                                                    *)
(***************************************************************************)
Ids == 0 .. MaxPolicies
Names == {"Flowering"}
Thresholds == {50}
Premiums == {1}
CreateSeasons == {1}
Deadlines == {0}
SeasonStarts == {10}
SeasonEnds == {40}
Engines == {FarmerA}
\* two engines, so that the owner can replace one by the other
PayoutEngines == {FarmerA, FarmerB}
Recipients == {Owner, PolicyManagerAddr, TreasuryAddr, ZeroAddr}
\* recipients whose code is not known and may call back
Callers == {Owner, FarmerA}

CreateAny(c) ==
    \E n \in Names, t \in Thresholds, pr \in Premiums, s \in CreateSeasons,
       ss \in SeasonStarts, se \in SeasonEnds, d \in Deadlines, full \in BOOLEAN :
       CreatePolicy(c, n, t, pr, s, ss, se, d, full)

(***************************************************************************)
(* Policy lifecycle and subscriptions: every call of PolicyManager, the    *)
(* Treasury being reached through subscribe and the owner granting or      *)
(* revoking PolicyManager's manager role.                                  *)
(***************************************************************************)
Next ==
    \/ \E c \in EOAs, e \in Engines : SetPayoutEngine(c, e)
    \/ \E c \in EOAs : CreateAny(c)
    \/ \E f \in Farmers, id \in Ids, v \in Payments : Subscribe(f, id, v)
    \/ \E c \in EOAs, id \in Ids : MarkPolicyAsPayout(c, id)
    \/ \E c \in EOAs, id \in Ids : PausePolicy(c, id)
    \/ \E c \in EOAs, id \in Ids : ResumePolicy(c, id)
    \/ \E c \in EOAs, id \in Ids : ResetPolicyForNewSeason(c, id)
    \/ \E c \in EOAs, m \in {PolicyManagerAddr, ZeroAddr}, en \in BOOLEAN :
          SetManager(c, m, en)
    \/ Tick

Spec == Init /\ [][Next]_vars

(***************************************************************************)
(* The policy lifecycle after a payout was marked.  The state is the one    *)
(* left by the calls setManager(policyManager, true) and                    *)
(* setPayoutEngine(farmerA) of the owner, createPolicy("Flowering", 50, 1,  *)
(* 1, 10, 40, 0, false) of the owner, subscribe(1) of farmerB paying the    *)
(* premium, and markPolicyAsPayout(1) of farmerA.                           *)
(***************************************************************************)
MarkedPolicy ==
    [id |-> 1, name |-> "Flowering", triggerThreshold |-> 50, premium |-> 1,
     season |-> 1, seasonStart |-> 10, seasonEnd |-> 40, subscriptionDeadline |-> 0,
     coversFullSeason |-> FALSE, status |-> PayoutTriggered,
     currentSubscribers |-> <<FarmerB>>,
     lastSubscribedSeason |-> [a \in Farmers |-> IF a = FarmerB THEN 1 ELSE 0]]

InitMarked ==
    /\ policies = [i \in PolicyIds |-> IF i = 1 THEN MarkedPolicy ELSE EmptyPolicy]
    /\ nextPolicyId = 2
    /\ payoutEngine = FarmerA
    /\ farmerPolicies = [a \in Farmers |-> IF a = FarmerB THEN <<1>> ELSE <<>>]
    /\ farmerSeasonFullCover = {}
    /\ historicalSubscribers = [i \in PolicyIds |-> [s \in Seasons |-> <<>>]]
    /\ authorizedManagers = {PolicyManagerAddr}
    /\ farmerBalances = [a \in Farmers |-> IF a = FarmerB THEN 1 ELSE 0]
    /\ totalCollected = 1
    /\ reentrancyStatus = NotEntered
    /\ inFlight = <<>>
    /\ balance = [a \in Accounts |->
                    IF a = FarmerA THEN InitialFunds
                    ELSE IF a = FarmerB THEN InitialFunds - 1
                    ELSE IF a = TreasuryAddr THEN 1
                    ELSE 0]
    /\ now = 0

SpecMarked == InitMarked /\ [][Next]_vars

(***************************************************************************)
(* One policy, with or without a premium: createPolicy takes any uint256   *)
(* as _premium, zero included.                                             *)
(***************************************************************************)
PremiumsWithZero == {0, 1}

CreateWithPremium(c) ==
    \E pr \in PremiumsWithZero, full \in BOOLEAN :
       CreatePolicy(c, "Flowering", 50, pr, 1, 10, 40, 0, full)

NextPremiums ==
    \/ \E c \in EOAs : nextPolicyId = 1 /\ CreateWithPremium(c)
    \/ \E f \in Farmers, id \in Ids, v \in Payments : Subscribe(f, id, v)
    \/ \E c \in EOAs, id \in Ids : PausePolicy(c, id)
    \/ \E c \in EOAs, id \in Ids : ResumePolicy(c, id)
    \/ \E c \in EOAs, id \in Ids : ResetPolicyForNewSeason(c, id)
    \/ \E c \in EOAs, m \in {PolicyManagerAddr, ZeroAddr}, en \in BOOLEAN :
          SetManager(c, m, en)
    \/ Tick

SpecPremiums == Init /\ [][NextPremiums]_vars

(***************************************************************************)
(* One policy, created in season 0 or in season 1: createPolicy takes any  *)
(* uint256 as _season, zero included.                                      *)
(***************************************************************************)
SeasonsWithZero == {0, 1}

CreateWithSeason(c) ==
    \E s \in SeasonsWithZero, full \in BOOLEAN :
       CreatePolicy(c, "Flowering", 50, 1, s, 10, 40, 0, full)

NextSeasons ==
    \/ \E c \in EOAs : nextPolicyId = 1 /\ CreateWithSeason(c)
    \/ \E f \in Farmers, id \in Ids, v \in Payments : Subscribe(f, id, v)
    \/ \E c \in EOAs, id \in Ids : PausePolicy(c, id)
    \/ \E c \in EOAs, id \in Ids : ResumePolicy(c, id)
    \/ \E c \in EOAs, id \in Ids : ResetPolicyForNewSeason(c, id)
    \/ \E c \in EOAs, m \in {PolicyManagerAddr, ZeroAddr}, en \in BOOLEAN :
          SetManager(c, m, en)
    \/ Tick

SpecSeasons == Init /\ [][NextSeasons]_vars

(***************************************************************************)
(* The ether of the PolicyManager: premiums paid to subscribe, plain       *)
(* transfers to the contract by the owner and the farmers, releases of the *)
(* Treasury to the owner and to the PolicyManager, and every other call of *)
(* the PolicyManager, on one policy.                                       *)
(***************************************************************************)
NextFunds ==
    \/ \E s \in EOAs, v \in Payments : Receive(s, v)
    \/ \E c \in EOAs, e \in Engines : SetPayoutEngine(c, e)
    \/ \E c \in EOAs : nextPolicyId = 1 /\ CreateAny(c)
    \/ \E f \in Farmers, id \in Ids, v \in Payments : Subscribe(f, id, v)
    \/ \E c \in EOAs, id \in Ids : MarkPolicyAsPayout(c, id)
    \/ \E c \in EOAs, id \in Ids : PausePolicy(c, id)
    \/ \E c \in EOAs, id \in Ids : ResumePolicy(c, id)
    \/ \E c \in EOAs, id \in Ids : ResetPolicyForNewSeason(c, id)
    \/ \E c \in EOAs, en \in BOOLEAN : SetManager(c, PolicyManagerAddr, en)
    \/ \E c \in EOAs, to \in {Owner, PolicyManagerAddr}, a \in Payments : Withdraw(c, to, a)
    \/ \E c \in EOAs, to \in {Owner, PolicyManagerAddr} : WithdrawAll(c, to)

SpecFunds == Init /\ [][NextFunds]_vars

(***************************************************************************)
(* The lifecycle of one policy: the calls of Next, with createPolicy       *)
(* issued once.                                                            *)
(***************************************************************************)
NextPolicy ==
    \/ \E c \in EOAs, e \in PayoutEngines : SetPayoutEngine(c, e)
    \/ \E c \in EOAs : nextPolicyId = 1 /\ CreateAny(c)
    \/ \E f \in Farmers, id \in Ids, v \in Payments : Subscribe(f, id, v)
    \/ \E c \in EOAs, id \in Ids : MarkPolicyAsPayout(c, id)
    \/ \E c \in EOAs, id \in Ids : PausePolicy(c, id)
    \/ \E c \in EOAs, id \in Ids : ResumePolicy(c, id)
    \/ \E c \in EOAs, id \in Ids : ResetPolicyForNewSeason(c, id)
    \/ \E c \in EOAs, m \in {PolicyManagerAddr, ZeroAddr}, en \in BOOLEAN :
          SetManager(c, m, en)
    \/ Tick

SpecPolicy == Init /\ [][NextPolicy]_vars

(***************************************************************************)
(* The vault: every call of Treasury by the owner, the farmers and         *)
(* PolicyManager (through subscribe to one policy).                        *)
(***************************************************************************)
NextTreasury ==
    \/ \E c \in EOAs, m \in {PolicyManagerAddr, FarmerB, ZeroAddr}, en \in BOOLEAN :
          SetManager(c, m, en)
    \/ \E c \in EOAs, f \in Farmers, v \in Payments : Deposit(c, f, v)
    \/ \E c \in EOAs, to \in Recipients, a \in Payments : Withdraw(c, to, a)
    \/ \E c \in EOAs, to \in Recipients : WithdrawAll(c, to)
    \/ \E c \in EOAs : nextPolicyId = 1 /\ CreateAny(c)
    \/ \E f \in Farmers, id \in Ids, v \in Payments : Subscribe(f, id, v)

SpecTreasury == Init /\ [][NextTreasury]_vars

(***************************************************************************)
(* Both contracts together: every external function of PolicyManager and   *)
(* of Treasury, called by every account, on one policy: farmerA            *)
(* subscribes; farmerB, once made a manager, deposits on its own account.  *)
(***************************************************************************)
NextCalls ==
    \/ \E c \in EOAs, e \in Engines : SetPayoutEngine(c, e)
    \/ \E c \in EOAs : nextPolicyId = 1 /\ CreateAny(c)
    \/ \E id \in Ids, v \in Payments : Subscribe(FarmerA, id, v)
    \/ \E c \in EOAs, id \in Ids : MarkPolicyAsPayout(c, id)
    \/ \E c \in EOAs, id \in Ids : PausePolicy(c, id)
    \/ \E c \in EOAs, id \in Ids : ResumePolicy(c, id)
    \/ \E c \in EOAs, id \in Ids : ResetPolicyForNewSeason(c, id)
    \/ \E c \in EOAs, m \in {PolicyManagerAddr, FarmerB, ZeroAddr}, en \in BOOLEAN :
          SetManager(c, m, en)
    \/ \E c \in EOAs, v \in Payments : Deposit(c, FarmerB, v)
    \/ \E c \in EOAs, to \in Recipients, a \in Payments : Withdraw(c, to, a)
    \/ \E c \in EOAs, to \in Recipients : WithdrawAll(c, to)
    \/ Tick

SpecCalls == Init /\ [][NextCalls]_vars

(***************************************************************************)
(* Fund releases in flight: a manager funds the Treasury, withdraw and     *)
(* withdrawAll are called by every account, at top level and while a       *)
(* recipient is running, towards the owner and a farmer, accounts of       *)
(* unknown code that never fund the Treasury (step by step),               *)
(* and towards PolicyManager, the Treasury and the zero address.           *)
(***************************************************************************)
NextReentrancy ==
    \/ /\ inFlight = <<>>
       /\ \E c \in EOAs, m \in {FarmerB, ZeroAddr}, en \in BOOLEAN : SetManager(c, m, en)
    \/ /\ inFlight = <<>>
       /\ \E c \in EOAs, f \in Farmers, v \in Payments : Deposit(c, f, v)
    \/ \E c \in EOAs, to \in Callers, a \in Payments : WithdrawBegin(c, to, a)
    \/ \E c \in EOAs, to \in Callers : WithdrawAllBegin(c, to)
    \/ \E success \in BOOLEAN : ReceiveReturns(success)
    \/ \E c \in EOAs, to \in Recipients \ EOAs, a \in Payments : Withdraw(c, to, a)
    \/ \E c \in EOAs, to \in Recipients \ EOAs : WithdrawAll(c, to)

SpecReentrancy == Init /\ [][NextReentrancy]_vars

(***************************************************************************)
(* Vocabulary of the properties.                                           *)
(***************************************************************************)
Range(seq) == {seq[i] : i \in DOMAIN seq}

Occurrences(seq, x) == Cardinality({i \in DOMAIN seq : seq[i] = x})

Created(id) == id \in PolicyIds /\ id < nextPolicyId

\* every check of subscribe other than the two season checks passes for f
Admissible(f, id) ==
    /\ Created(id)
    /\ policies[id].status = Active
    /\ now <= policies[id].subscriptionDeadline
    /\ balance[f] >= policies[id].premium
    /\ DepositError(PolicyManagerAddr, policies[id].premium) = OK

\* C1: a farmer is admitted to a policy at most once per season: a successful
\* subscribe(f, id) needs lastSubscribedSeason[f] < season and leaves it equal to
\* the season; while a farmer's lastSubscribedSeason equals the season every
\* subscribe(f, id) reverts, with any payment; no farmer is twice among the
\* current subscribers.
C1_OncePerSeason ==
    /\ [](\A f \in Farmers, id \in PolicyIds :
            /\ (Created(id) /\ policies[id].lastSubscribedSeason[f] = policies[id].season)
                  => \A v \in Payments : SubscribeError(f, id, v) # OK
            /\ Occurrences(policies[id].currentSubscribers, f) <= 1
            /\ f \in Range(policies[id].currentSubscribers)
                  => policies[id].lastSubscribedSeason[f] = policies[id].season)
    /\ [][\A f \in Farmers, id \in PolicyIds, v \in Payments :
            Subscribe(f, id, v)
               => /\ policies[id].lastSubscribedSeason[f] < policies[id].season
                  /\ policies'[id].lastSubscribedSeason[f] = policies[id].season
                  /\ policies'[id].season = policies[id].season]_vars

\* C1 witness: a farmer who subscribed to a partial-coverage policy this season
\* tries again with everything else in order and is turned away as a duplicate
C1_Witness ==
    \E f \in Farmers, id \in PolicyIds :
        /\ Admissible(f, id)
        /\ ~policies[id].coversFullSeason
        /\ f \in Range(policies[id].currentSubscribers)
        /\ SubscribeError(f, id, policies[id].premium) = ErrDuplicate

\* C2: once farmerSeasonFullCover[f][s] is true it stays true, it becomes true
\* when f subscribes to a full-season policy of season s, and while it is true
\* every subscribe by f to a policy whose season is s reverts, whether the
\* policy covers the full season or not.
C2_FullCoverBlocksSeason ==
    /\ [](\A f \in Farmers, id \in PolicyIds :
            (Created(id) /\ FullCover(f, policies[id].season))
               => \A v \in Payments : SubscribeError(f, id, v) # OK)
    /\ [][/\ farmerSeasonFullCover \subseteq farmerSeasonFullCover'
          /\ \A f \in Farmers, id \in PolicyIds, v \in Payments :
               (Subscribe(f, id, v) /\ policies[id].coversFullSeason)
                  => FullCover(f, policies[id].season)']_vars

\* C2 witness: a farmer holding a full-season policy is refused by a
\* partial-coverage policy of the same season he never subscribed to
C2_Witness ==
    \E f \in Farmers, id \in PolicyIds :
        /\ Admissible(f, id)
        /\ ~policies[id].coversFullSeason
        /\ policies[id].lastSubscribedSeason[f] < policies[id].season
        /\ FullCover(f, policies[id].season)
        /\ SubscribeError(f, id, policies[id].premium) = ErrSubAfterFull

\* C3: (as claimed) a farmer subscribed in season s to a full-season policy is
\* subscribed in season s to no other policy, whatever the order of the calls.
C3_FullSeasonExclusive ==
    \A f \in Farmers, full \in PolicyIds, other \in PolicyIds :
        (/\ full # other
         /\ Created(full) /\ Created(other)
         /\ policies[full].coversFullSeason
         /\ policies[full].lastSubscribedSeason[f] > 0)
           => policies[other].lastSubscribedSeason[f] # policies[full].lastSubscribedSeason[f]

\* C4: (as claimed) a status changes only Active -> Paused, Paused -> Active,
\* Active -> PayoutTriggered, or Paused / PayoutTriggered -> Active together with
\* season + 1 and an emptied subscriber list.
C4_StatusTransitions ==
    [][\A id \in PolicyIds :
        (Created(id) /\ policies'[id].status # policies[id].status)
           => LET old == policies[id]
                  new == policies'[id]
              IN \/ old.status = Active /\ new.status = Paused
                 \/ old.status = Paused /\ new.status = Active
                 \/ old.status = Active /\ new.status = PayoutTriggered
                 \/ /\ old.status \in {Paused, PayoutTriggered}
                    /\ new.status = Active
                    /\ new.season = old.season + 1
                    /\ new.currentSubscribers = <<>>]_vars

\* C5: a subscribe succeeds only with a payment equal to the premium: any other
\* payment reverts, and a subscriber is added only by a call that pays exactly
\* the premium, all of which reaches the Treasury.
C5_ExactPremium ==
    /\ [](\A f \in Farmers, id \in PolicyIds, v \in Payments :
            (Created(id) /\ v # policies[id].premium) => SubscribeError(f, id, v) # OK)
    /\ [][\A id \in PolicyIds :
            /\ \A f \in Farmers, v \in Payments :
                 Subscribe(f, id, v) => v = policies[id].premium
            /\ policies'[id].currentSubscribers # policies[id].currentSubscribers
                 => \/ policies'[id].currentSubscribers = <<>>
                    \/ /\ balance'[TreasuryAddr] = balance[TreasuryAddr] + policies[id].premium
                       /\ \E f \in Farmers : Subscribe(f, id, policies[id].premium)]_vars

\* C5 witness: a policy with a subscriber turns away the next farmer both for
\* one unit less and for one unit more than the premium, and admits the premium
C5_Witness ==
    \E f \in Farmers, id \in PolicyIds :
        /\ Admissible(f, id)
        /\ policies[id].currentSubscribers # <<>>
        /\ balance[f] > policies[id].premium
        /\ SubscribeError(f, id, policies[id].premium - 1) = ErrPremium
        /\ SubscribeError(f, id, policies[id].premium + 1) = ErrPremium
        /\ SubscribeError(f, id, policies[id].premium) = OK

\* C6: the season changes only by resetPolicyForNewSeason called by the owner on
\* a Paused or PayoutTriggered policy, which leaves season + 1, no current
\* subscriber and status Active; on an Active policy the owner's call reverts
\* with the state error.
C6_SeasonReset ==
    /\ [](\A id \in PolicyIds :
            (Created(id) /\ policies[id].status = Active)
               => ResetError(Owner, id) = ErrResetState)
    /\ [][\A id \in PolicyIds :
            /\ \A c \in EOAs :
                 ResetPolicyForNewSeason(c, id)
                    => /\ c = Owner
                       /\ policies[id].status \in {Paused, PayoutTriggered}
                       /\ policies'[id].season = policies[id].season + 1
                       /\ policies'[id].currentSubscribers = <<>>
                       /\ policies'[id].status = Active
            /\ (Created(id) /\ policies'[id].season # policies[id].season)
                 => ResetPolicyForNewSeason(Owner, id)]_vars

\* C6 witness: a policy that had a subscriber in season 1 is in season 2, Active
\* and without subscribers, and resetting it again is refused
C6_Witness ==
    \E f \in Farmers, id \in PolicyIds :
        /\ Created(id)
        /\ policies[id].lastSubscribedSeason[f] = 1
        /\ policies[id].season = 2
        /\ policies[id].currentSubscribers = <<>>
        /\ policies[id].status = Active
        /\ ResetError(Owner, id) = ErrResetState

\* C7: a status becomes PayoutTriggered only by markPolicyAsPayout called by the
\* payout engine on an existing Active policy; right after it, and as long as
\* the status is PayoutTriggered, the same call reverts with the state error.
C7_MarkPayout ==
    /\ [](\A id \in PolicyIds :
            (Created(id) /\ policies[id].status = PayoutTriggered)
               => /\ MarkPolicyAsPayoutError(payoutEngine, id) = ErrMarkNotActive
                  /\ \A c \in EOAs : MarkPolicyAsPayoutError(c, id) # OK)
    /\ [][\A id \in PolicyIds :
            /\ \A c \in EOAs :
                 MarkPolicyAsPayout(c, id)
                    => /\ Created(id)
                       /\ policies[id].status = Active
                       /\ c = payoutEngine
                       /\ policies'[id].status = PayoutTriggered
                       /\ (MarkPolicyAsPayoutError(c, id))' = ErrMarkNotActive
            /\ (policies'[id].status = PayoutTriggered
                   /\ policies[id].status # PayoutTriggered)
                 => payoutEngine \in EOAs /\ MarkPolicyAsPayout(payoutEngine, id)]_vars

\* C7 witness: a policy marked for payout, on which the engine's second call is
\* refused
C7_Witness ==
    \E id \in PolicyIds :
        /\ Created(id)
        /\ policies[id].status = PayoutTriggered
        /\ payoutEngine \in EOAs
        /\ MarkPolicyAsPayoutError(payoutEngine, id) = ErrMarkNotActive

\* C8: createPolicy, pausePolicy, resumePolicy, resetPolicyForNewSeason and
\* setPayoutEngine revert with the owner error for every caller but the owner,
\* the payout engine and the farmers included; nextPolicyId, payoutEngine and a
\* policy's status (other than to PayoutTriggered) and season change only by the
\* owner's calls.
C8_OwnerOnly ==
    /\ [](\A c \in EOAs \ {Owner}, id \in Ids :
            /\ CreatePolicyError(c) = ErrOnlyOwner
            /\ SetPayoutEngineError(c) = ErrOnlyOwner
            /\ PausePolicyError(c, id) = ErrOnlyOwner
            /\ ResumePolicyError(c, id) = ErrOnlyOwner
            /\ ResetError(c, id) = ErrOnlyOwner)
    /\ [][/\ \A c \in EOAs :
               (\/ CreateAny(c)
                \/ \E e \in PayoutEngines : SetPayoutEngine(c, e)
                \/ \E id \in Ids : \/ PausePolicy(c, id)
                                   \/ ResumePolicy(c, id)
                                   \/ ResetPolicyForNewSeason(c, id))
                  => c = Owner
          /\ nextPolicyId' # nextPolicyId => CreateAny(Owner)
          /\ payoutEngine' # payoutEngine => \E e \in PayoutEngines : SetPayoutEngine(Owner, e)
          /\ \A id \in PolicyIds :
               (/\ Created(id)
                /\ policies'[id].status # PayoutTriggered
                /\ \/ policies'[id].status # policies[id].status
                   \/ policies'[id].season # policies[id].season)
                  => \/ PausePolicy(Owner, id)
                     \/ ResumePolicy(Owner, id)
                     \/ ResetPolicyForNewSeason(Owner, id)]_vars

\* C8 witness: the owner has created a policy, set the payout engine and paused
\* the policy; the engine and a farmer are refused on every owner-only call
C8_Witness ==
    \E id \in PolicyIds :
        /\ Created(id)
        /\ policies[id].status = Paused
        /\ payoutEngine = FarmerA
        /\ PausePolicyError(FarmerA, id) = ErrOnlyOwner
        /\ ResumePolicyError(FarmerB, id) = ErrOnlyOwner
        /\ ResetError(FarmerA, id) = ErrOnlyOwner
        /\ SetPayoutEngineError(FarmerB) = ErrOnlyOwner
        /\ CreatePolicyError(FarmerA) = ErrOnlyOwner

\* C9: Treasury.deposit reverts for every caller that is not an authorized
\* manager at the time of the call, a manager the owner has just revoked
\* included; farmerBalances, totalCollected and the funds held grow only by a
\* deposit of a currently authorized manager (directly, or PolicyManager through
\* subscribe).
C9_DepositOnlyByManager ==
    /\ [](\A c \in EOAs \cup {PolicyManagerAddr}, v \in Payments :
            c \notin authorizedManagers => DepositError(c, v) = ErrNotManager)
    /\ [][/\ (\/ farmerBalances' # farmerBalances
              \/ totalCollected' # totalCollected
              \/ balance'[TreasuryAddr] > balance[TreasuryAddr])
                => \/ \E c \in EOAs \cap authorizedManagers, f \in Farmers, v \in Payments :
                        Deposit(c, f, v)
                   \/ /\ PolicyManagerAddr \in authorizedManagers
                      /\ \E f \in Farmers, id \in PolicyIds, v \in Payments :
                           Subscribe(f, id, v)
          /\ \A m \in {PolicyManagerAddr, FarmerB} :
               SetManager(Owner, m, FALSE)
                  => (\A v \in Payments : DepositError(m, v) = ErrNotManager)']_vars

\* C9 witness: farmerB deposited for farmerA while a manager (farmerA never
\* subscribed), has been revoked since, still has funds, and is now refused
C9_Witness ==
    /\ farmerPolicies[FarmerA] = <<>>
    /\ farmerBalances[FarmerA] > 0
    /\ FarmerB \notin authorizedManagers
    /\ balance[FarmerB] > 0
    /\ DepositError(FarmerB, 1) = ErrNotManager

\* C10: the funds held never go below zero and decrease only by withdraw or
\* withdrawAll called by the owner; a withdraw of more than the funds held
\* reverts; a successful withdraw(to, amount) is the owner's, takes exactly
\* amount from the funds held and gives exactly amount to the recipient.
C10_Withdraw ==
    /\ [](/\ balance[TreasuryAddr] >= 0
          /\ \A c \in EOAs, to \in Recipients, a \in Payments :
               a > balance[TreasuryAddr]
                  => /\ WithdrawError(c, to, a) # OK
                     /\ (c = Owner /\ to # ZeroAddr)
                          => WithdrawError(c, to, a) = ErrInsufficient)
    /\ [][/\ \A c \in EOAs, to \in Recipients, a \in Payments :
               Withdraw(c, to, a)
                  => /\ c = Owner
                     /\ a <= balance[TreasuryAddr]
                     /\ balance'[TreasuryAddr] = balance[TreasuryAddr] - a
                     /\ balance'[to] = balance[to] + a
          /\ balance'[TreasuryAddr] < balance[TreasuryAddr]
               => \E to \in Recipients :
                     \/ WithdrawAll(Owner, to)
                     \/ \E a \in Payments : Withdraw(Owner, to, a)]_vars

\* C10 witness: the owner has withdrawn part of the funds held and is refused an
\* amount above what is left
C10_Witness ==
    /\ balance[Owner] > 0
    /\ balance[TreasuryAddr] > 0
    /\ balance[TreasuryAddr] < MaxPayment
    /\ WithdrawError(Owner, Owner, balance[TreasuryAddr] + 1) = ErrInsufficient
    /\ WithdrawError(Owner, Owner, balance[TreasuryAddr]) = OK

RECURSIVE PremiumsOf(_)
\* the premiums of the policies listed in ids, one term per entry
PremiumsOf(ids) ==
    IF ids = <<>> THEN 0
    ELSE policies[Head(ids)].premium + PremiumsOf(Tail(ids))

\* C11: subscribe is all-or-nothing with respect to the forwarded deposit: a
\* subscribe that fails in Treasury.deposit leaves policies (lastSubscribedSeason
\* and currentSubscribers), farmerPolicies and farmerSeasonFullCover as they
\* were; every subscription on record has its premium in the Treasury ledger;
\* and a farmer refused only because PolicyManager is not an authorized manager
\* is admitted by the same call once the owner has authorized it.
C11_SubscribeAllOrNothing ==
    /\ [](\A f \in Farmers :
            /\ farmerBalances[f] = PremiumsOf(farmerPolicies[f])
            /\ \A id \in PolicyIds :
                 f \in Range(policies[id].currentSubscribers)
                    => id \in Range(farmerPolicies[f]))
    /\ [][\A f \in Farmers, id \in PolicyIds :
            /\ \A v \in Payments :
                 (SubscribeError(f, id, v) \in DepositErrors /\ Subscribe(f, id, v))
                    => UNCHANGED <<policies, farmerPolicies, farmerSeasonFullCover>>
            /\ (/\ SetManager(Owner, PolicyManagerAddr, TRUE)
                /\ Created(id)
                /\ SubscribeError(f, id, policies[id].premium) = ErrNotManager)
                 => (SubscribeError(f, id, policies[id].premium))' = OK]_vars

\* C11 witness: a policy that admitted one farmer while PolicyManager was an
\* authorized manager refuses the other farmer, funds in hand, at the deposit
\* now that the authorization is revoked
C11_Witness ==
    \E f \in Farmers, id \in PolicyIds :
        /\ Created(id)
        /\ policies[id].currentSubscribers # <<>>
        /\ PolicyManagerAddr \notin authorizedManagers
        /\ balance[f] >= policies[id].premium
        /\ f \notin Range(policies[id].currentSubscribers)
        /\ SubscribeError(f, id, policies[id].premium) = ErrNotManager

\* the step is a call, by any account with any arguments, that ends in an error
FailedCall ==
    \/ \E c \in EOAs, e \in Engines :
          SetPayoutEngineError(c) # OK /\ SetPayoutEngine(c, e)
    \/ \E c \in EOAs : CreatePolicyError(c) # OK /\ CreateAny(c)
    \/ \E f \in Farmers, id \in Ids, v \in Payments :
          SubscribeError(f, id, v) # OK /\ Subscribe(f, id, v)
    \/ \E c \in EOAs, id \in Ids :
          \/ MarkPolicyAsPayoutError(c, id) # OK /\ MarkPolicyAsPayout(c, id)
          \/ PausePolicyError(c, id) # OK /\ PausePolicy(c, id)
          \/ ResumePolicyError(c, id) # OK /\ ResumePolicy(c, id)
          \/ ResetError(c, id) # OK /\ ResetPolicyForNewSeason(c, id)
    \/ \E c \in EOAs, m \in Accounts, en \in BOOLEAN :
          SetManagerError(c, m) # OK /\ SetManager(c, m, en)
    \/ \E c \in EOAs, f \in Farmers, v \in Payments :
          DepositError(c, v) # OK /\ Deposit(c, f, v)
    \/ \E c \in EOAs, to \in Recipients :
          \/ WithdrawAllError(c, to) # OK /\ WithdrawAll(c, to)
          \/ \E a \in Payments : WithdrawError(c, to, a) # OK /\ Withdraw(c, to, a)

RECURSIVE Total(_, _)
\* the sum of fn over the accounts in set
Total(fn, set) ==
    IF set = {} THEN 0
    ELSE LET a == CHOOSE x \in set : TRUE IN fn[a] + Total(fn, set \ {a})

\* C12: a call of PolicyManager or of the Treasury that ends in an error leaves
\* policies, nextPolicyId, payoutEngine, farmerPolicies, farmerSeasonFullCover,
\* authorizedManagers, farmerBalances, totalCollected and the funds of every
\* account as they were; no state shows half of a call: the ledger total equals
\* the sum of the farmers' ledger entries, the Treasury never holds more than
\* was collected, and no ether appears or disappears.
C12_ErrorsChangeNothing ==
    /\ [](/\ totalCollected = Total(farmerBalances, Farmers)
          /\ balance[TreasuryAddr] <= totalCollected
          /\ Total(balance, Accounts) = InitialFunds * Cardinality(Farmers))
    /\ [][FailedCall => UNCHANGED vars]_vars

\* C12 witness: with a subscriber on record, funds in the Treasury and the
\* policy marked for payout, a subscribe, a second mark, a deposit by a
\* non-manager, a resume by a farmer and a withdraw to an account that rejects
\* ether all end in their errors
C12_Witness ==
    /\ Created(1)
    /\ policies[1].status = PayoutTriggered
    /\ policies[1].currentSubscribers = <<FarmerA>>
    /\ balance[TreasuryAddr] > 0
    /\ balance[FarmerB] > 0
    /\ SubscribeError(FarmerA, 1, policies[1].premium) = ErrNotActive
    /\ MarkPolicyAsPayoutError(payoutEngine, 1) = ErrMarkNotActive
    /\ DepositError(FarmerB, 1) = ErrNotManager
    /\ ResumePolicyError(FarmerA, 1) = ErrOnlyOwner
    /\ WithdrawError(Owner, TreasuryAddr, 1) = ErrTransfer

\* C13: policy ids are 1, 2, 3, ... in creation order, without gaps, never
\* reused or deleted: the ids that hold a policy are exactly 1 .. nextPolicyId-1,
\* each storing its own id; nextPolicyId never decreases and grows by one per
\* creation, the new policy taking the old counter as its id; for id 0 and for
\* every id >= nextPolicyId getPolicyDetails, subscribe and markPolicyAsPayout
\* fail with the not-found error for every caller, and pausePolicy, resumePolicy
\* and resetPolicyForNewSeason fail for every caller, with the not-found error
\* for the owner.
C13_DenseIds ==
    /\ [](/\ nextPolicyId >= 1
          /\ \A id \in PolicyIds :
               /\ (id \in 1 .. nextPolicyId - 1) <=> policies[id].id = id
               /\ (id \in 1 .. nextPolicyId - 1) <=> policies[id] # EmptyPolicy
               /\ (id \in 1 .. nextPolicyId - 1) <=> GetPolicyDetailsError(id) = OK
          /\ \A id \in 0 .. MaxPolicies + 1 :
               id \notin 1 .. nextPolicyId - 1
                  => /\ GetPolicyDetailsError(id) = ErrNoPolicy
                     /\ \A f \in Farmers, v \in Payments :
                          SubscribeError(f, id, v) = ErrNoPolicy
                     /\ \A c \in EOAs :
                          /\ MarkPolicyAsPayoutError(c, id) = ErrNoPolicy
                          /\ PausePolicyError(c, id) # OK
                          /\ ResumePolicyError(c, id) # OK
                          /\ ResetError(c, id) # OK
                     /\ PausePolicyError(Owner, id) = ErrNoPolicy
                     /\ ResumePolicyError(Owner, id) = ErrNoPolicy
                     /\ ResetError(Owner, id) = ErrNoPolicy)
    /\ [][/\ nextPolicyId' >= nextPolicyId
          /\ nextPolicyId' # nextPolicyId
               => /\ nextPolicyId' = nextPolicyId + 1
                  /\ policies'[nextPolicyId].id = nextPolicyId
          /\ \A id \in PolicyIds :
               Created(id) => policies'[id].id = id]_vars

\* C13 witness: two policies exist, the first already in its second season;
\* ids 1 and 2 are found, ids 0 and 3 are not
C13_Witness ==
    /\ nextPolicyId = 3
    /\ policies[1].season = 2
    /\ GetPolicyDetailsError(1) = OK
    /\ GetPolicyDetailsError(2) = OK
    /\ getPolicyDetails(2).season = 1
    /\ GetPolicyDetailsError(0) = ErrNoPolicy
    /\ GetPolicyDetailsError(3) = ErrNoPolicy

\* C14: right after a successful createPolicy the new policy, read through
\* getPolicyDetails under the id the counter had, has status Active, no
\* subscriber, and the name, threshold, premium, season, season start, season
\* end, subscription deadline and coversFullSeason the caller gave; no farmer
\* has subscribed to it and every other policy is as it was.
C14_CreatePolicy ==
    [][\A id \in PolicyIds, c \in EOAs, n \in Names, t \in Thresholds,
         pr \in Premiums, s \in CreateSeasons, ss \in SeasonStarts,
         se \in SeasonEnds, d \in Deadlines, full \in BOOLEAN :
          (/\ id = nextPolicyId
           /\ CreatePolicyError(c) = OK
           /\ CreatePolicy(c, n, t, pr, s, ss, se, d, full))
             => /\ (GetPolicyDetailsError(id))' = OK
                /\ (getPolicyDetails(id))' =
                      [name |-> n, threshold |-> t, premium |-> pr, status |-> Active,
                       season |-> s, seasonStart |-> ss, seasonEnd |-> se,
                       subscriptionDeadline |-> d, coversFullSeason |-> full,
                       subscriberCount |-> 0]
                /\ policies'[id].currentSubscribers = <<>>
                /\ \A f \in Farmers : policies'[id].lastSubscribedSeason[f] = 0
                /\ \A other \in PolicyIds \ {id} :
                     policies'[other] = policies[other]]_vars

\* C14 witness: a second policy has just been created, Active and empty, next
\* to a first one that has a subscriber and is paused
C14_Witness ==
    /\ nextPolicyId = 3
    /\ policies[1].status = Paused
    /\ policies[1].currentSubscribers # <<>>
    /\ getPolicyDetails(2).status = Active
    /\ getPolicyDetails(2).subscriberCount = 0
    /\ getPolicyDetails(2).name = "Flowering"
    /\ getPolicyDetails(2).threshold = 50
    /\ \A f \in Farmers : policies[2].lastSubscribedSeason[f] = 0

C16_ResetReopensAdmission ==
    [][\A id \in PolicyIds, f \in Farmers :
        (/\ ResetError(Owner, id) = OK
         /\ ResetPolicyForNewSeason(Owner, id)
         /\ f \in Range(policies[id].currentSubscribers)
         /\ PolicyManagerAddr \in authorizedManagers
         /\ ~FullCover(f, policies[id].season + 1))
           => (SubscribeError(f, id, policies[id].premium))' = OK]_vars

\* C17: while the recipient of a withdraw or withdrawAll is running, every call
\* of withdraw and of withdrawAll fails, whoever makes it and with any
\* arguments, with the re-entrancy error when the caller is the owner (the
\* recipient itself included); so never more than one release is in flight, the
\* Treasury has lost exactly the amount of that release while it is in flight,
\* and when the recipient returns the top-level call has released that amount
\* and no more.
C17_NoReentrantRelease ==
    /\ [](inFlight # <<>>
            => /\ Len(inFlight) = 1
               /\ balance[TreasuryAddr] =
                     inFlight[1].before[TreasuryAddr] - inFlight[1].amount
               /\ \A c \in EOAs, to \in Recipients \cup EOAs :
                    /\ WithdrawAllError(c, to) # OK
                    /\ \A a \in Payments : WithdrawError(c, to, a) # OK
               /\ \A to \in Recipients \cup EOAs :
                    /\ WithdrawAllError(Owner, to) = ErrReentrant
                    /\ \A a \in Payments : WithdrawError(Owner, to, a) = ErrReentrant)
    /\ [][(inFlight # <<>> /\ ReceiveReturns(TRUE))
            => /\ balance'[TreasuryAddr] =
                     inFlight[1].before[TreasuryAddr] - inFlight[1].amount
               /\ balance'[inFlight[1].to] =
                     inFlight[1].before[inFlight[1].to] + inFlight[1].amount]_vars

\* C17 witness: the owner is the recipient of a withdraw of part of the funds
\* and is running; the funds left would cover a second withdraw, which is
\* refused for re-entrancy
C17_Witness ==
    /\ inFlight # <<>>
    /\ inFlight[1].to = Owner
    /\ inFlight[1].amount > 0
    /\ balance[TreasuryAddr] > 0
    /\ WithdrawError(Owner, Owner, balance[TreasuryAddr]) = ErrReentrant
    /\ WithdrawAllError(Owner, Owner) = ErrReentrant

\* C18 (as claimed): a subscribe whose payment differs from the premium of the
\* policy always fails with the payment error.
C18_AlwaysPaymentError ==
    \A f \in Farmers, id \in PolicyIds, v \in Payments :
        (Created(id) /\ v # policies[id].premium)
           => SubscribeError(f, id, v) = ErrPremium

\* C18 (amended): a subscribe whose payment differs from the premium of the
\* policy always fails and leaves the funds held by the Treasury and
\* totalCollected as they were; the error is the payment error when the policy
\* is Active and its deadline has not passed, the state error when it is not
\* Active, and the deadline error when it is Active past its deadline.
C18_WrongPaymentFails ==
    /\ [](\A f \in Farmers, id \in PolicyIds, v \in Payments :
            (Created(id) /\ v # policies[id].premium)
               => SubscribeError(f, id, v) =
                     IF policies[id].status # Active THEN ErrNotActive
                     ELSE IF now > policies[id].subscriptionDeadline THEN ErrDeadline
                     ELSE ErrPremium)
    /\ [][\/ UNCHANGED <<balance, totalCollected, farmerBalances>>
          \/ \A f \in Farmers, id \in PolicyIds, v \in Payments :
               (Created(id) /\ v # policies[id].premium) => ~Subscribe(f, id, v)]_vars

\* C18 witness: with premiums collected, an open Active policy that has a
\* subscriber answers an overpayment by a farmer who has not subscribed with
\* the payment error, and the exact premium with none
C18_Witness ==
    \E f \in Farmers, open \in PolicyIds :
        /\ Created(open)
        /\ totalCollected > 0
        /\ balance[f] > policies[open].premium
        /\ policies[open].status = Active
        /\ policies[open].currentSubscribers # <<>>
        /\ f \notin Range(policies[open].currentSubscribers)
        /\ now <= policies[open].subscriptionDeadline
        /\ SubscribeError(f, open, policies[open].premium + 1) = ErrPremium
        /\ SubscribeError(f, open, policies[open].premium) = OK

\* C19: a successful Treasury.deposit(farmer) with payment v has v > 0 and
\* increases farmerBalances[farmer], totalCollected and the funds held by
\* exactly v each, taken from the caller, leaving the other farmers' entries and
\* the manager table as they were; a deposit with v = 0 fails for every caller,
\* with the zero-deposit error for an authorized manager.
C19_Deposit ==
    /\ [](\A c \in EOAs \cup {PolicyManagerAddr} :
            /\ DepositError(c, 0) # OK
            /\ c \in authorizedManagers => DepositError(c, 0) = ErrZeroDeposit)
    /\ [][\A c \in EOAs, f \in Farmers, v \in Payments :
            (DepositError(c, v) = OK /\ Deposit(c, f, v))
               => /\ v > 0
                  /\ farmerBalances'[f] = farmerBalances[f] + v
                  /\ \A g \in Farmers \ {f} : farmerBalances'[g] = farmerBalances[g]
                  /\ totalCollected' = totalCollected + v
                  /\ balance'[TreasuryAddr] = balance[TreasuryAddr] + v
                  /\ balance'[c] = balance[c] - v
                  /\ authorizedManagers' = authorizedManagers]_vars

\* C19 witness: farmerB, an authorized manager, has deposited one unit for
\* farmerA, who never subscribed; nothing is recorded for farmerB; a further
\* deposit of zero is refused and one of a unit is accepted
C19_Witness ==
    /\ FarmerB \in authorizedManagers
    /\ farmerPolicies[FarmerA] = <<>>
    /\ farmerBalances[FarmerA] = 1
    /\ farmerBalances[FarmerB] = 0
    /\ totalCollected = 1
    /\ balance[TreasuryAddr] = 1
    /\ balance[FarmerB] = InitialFunds - 1
    /\ DepositError(FarmerB, 0) = ErrZeroDeposit
    /\ DepositError(FarmerB, 1) = OK

\* C20: (as claimed) withdrawAll(to) called by the owner fails with the
\* zero-balance error when the Treasury holds nothing; otherwise it ends as
\* withdraw(to, funds held) ends, error for error, for every caller and
\* recipient, and when it succeeds it is the same step: the whole amount goes
\* to the recipient and the Treasury holds nothing afterwards.
C20_WithdrawAllAsWithdraw ==
    /\ [](\A c \in EOAs, to \in Recipients :
            /\ balance[TreasuryAddr] = 0 => WithdrawAllError(Owner, to) = ErrZeroBalance
            /\ balance[TreasuryAddr] > 0
                 => WithdrawAllError(c, to) = WithdrawError(c, to, balance[TreasuryAddr]))
    /\ [][\A c \in EOAs, to \in Recipients :
            (WithdrawAllError(c, to) = OK /\ WithdrawAll(c, to))
               => /\ balance'[TreasuryAddr] = 0
                  /\ balance'[to] = balance[to] + balance[TreasuryAddr]
                  /\ Withdraw(c, to, balance[TreasuryAddr])]_vars

\* C21: no farmer is added to the current subscribers of a policy whose status
\* is Paused or PayoutTriggered: on an existing policy that is not Active every
\* subscribe, by any farmer with any payment, fails with the state error, and a
\* subscriber list grows only on a policy that is Active before and after.
C21_SubscribeOnlyWhenActive ==
    /\ [](\A f \in Farmers, id \in PolicyIds, v \in Payments :
            (Created(id) /\ policies[id].status # Active)
               => SubscribeError(f, id, v) = ErrNotActive)
    /\ [][\A id \in PolicyIds :
            Len(policies'[id].currentSubscribers) > Len(policies[id].currentSubscribers)
               => /\ policies[id].status = Active
                  /\ policies'[id].status = Active]_vars

\* C21 witness: a policy with a subscriber from before is Paused or
\* PayoutTriggered and still open by its deadline; a farmer who holds the
\* premium and has not subscribed to it is refused with the state error
C21_Witness ==
    \E f \in Farmers, p \in PolicyIds :
        /\ Created(p)
        /\ policies[p].status \in {Paused, PayoutTriggered}
        /\ policies[p].currentSubscribers # <<>>
        /\ f \notin Range(policies[p].currentSubscribers)
        /\ balance[f] >= policies[p].premium
        /\ PolicyManagerAddr \in authorizedManagers
        /\ now <= policies[p].subscriptionDeadline
        /\ SubscribeError(f, p, policies[p].premium) = ErrNotActive

\* C22: on an existing Active policy, subscribe passes the deadline check when
\* the current time is at most the subscription deadline, the deadline itself
\* included, and fails with the deadline error, for every farmer and payment,
\* when the current time is greater; a subscriber is added only at a time that
\* is at most the deadline.
C22_Deadline ==
    /\ [](\A f \in Farmers, id \in PolicyIds, v \in Payments :
            (Created(id) /\ policies[id].status = Active)
               => /\ now > policies[id].subscriptionDeadline
                       => SubscribeError(f, id, v) = ErrDeadline
                  /\ now <= policies[id].subscriptionDeadline
                       => SubscribeError(f, id, v) # ErrDeadline)
    /\ [][\A id \in PolicyIds :
            Len(policies'[id].currentSubscribers) > Len(policies[id].currentSubscribers)
               => now <= policies[id].subscriptionDeadline]_vars

\* C22 witness: an Active policy admitted a farmer at time 0, which is its
\* deadline; the time is now past it and the other farmer, premium in hand, is
\* refused with the deadline error
C22_Witness ==
    \E f \in Farmers, id \in PolicyIds :
        /\ Created(id)
        /\ policies[id].status = Active
        /\ policies[id].subscriptionDeadline = 0
        /\ policies[id].currentSubscribers # <<>>
        /\ now = policies[id].subscriptionDeadline + 1
        /\ f \notin Range(policies[id].currentSubscribers)
        /\ balance[f] >= policies[id].premium
        /\ PolicyManagerAddr \in authorizedManagers
        /\ SubscribeError(f, id, policies[id].premium) = ErrDeadline

\* C23: the error of subscribe is that of the first failing check in the
\* order: the policy exists, its status is Active, the deadline has not
\* passed, the payment equals the premium, the farmer has not subscribed in the
\* policy's season, the farmer's full-cover flag of the season is false,
\* whatever the later checks would say; and a step writes the farmer's
\* subscription records (season marker, full-cover flag, policy history) only
\* from a state in which all six checks pass for that farmer on some policy.
C23_CheckOrder ==
    /\ [](\A f \in Farmers, id \in Ids, v \in Payments :
            LET e == SubscribeError(f, id, v)
                p == policies[id]
            IN  IF ~Created(id) THEN e = ErrNoPolicy
                ELSE IF p.status # Active THEN e = ErrNotActive
                ELSE IF now > p.subscriptionDeadline THEN e = ErrDeadline
                ELSE IF v # p.premium THEN e = ErrPremium
                ELSE IF p.lastSubscribedSeason[f] >= p.season THEN e = ErrDuplicate
                ELSE IF <<f, p.season>> \in farmerSeasonFullCover
                     THEN e \in {ErrFullTwice, ErrSubAfterFull}
                ELSE e \in DepositErrors \cup {OK})
    /\ [][\A f \in Farmers :
            (\/ farmerPolicies'[f] # farmerPolicies[f]
             \/ \E s \in Seasons : /\ <<f, s>> \in farmerSeasonFullCover'
                                   /\ <<f, s>> \notin farmerSeasonFullCover
             \/ \E id \in PolicyIds : /\ Created(id)
                                      /\ policies'[id].lastSubscribedSeason[f]
                                           # policies[id].lastSubscribedSeason[f])
               => \E id \in PolicyIds :
                     /\ Created(id)
                     /\ policies[id].status = Active
                     /\ now <= policies[id].subscriptionDeadline
                     /\ balance'[f] = balance[f] - policies[id].premium
                     /\ policies[id].lastSubscribedSeason[f] < policies[id].season
                     /\ <<f, policies[id].season>> \notin farmerSeasonFullCover
                     /\ farmerPolicies'[f] = Append(farmerPolicies[f], id)]_vars

\* C23 witness: a farmer holding a full-season subscription of the season
\* calls subscribe with a wrong payment on that policy, now Paused and past
\* its deadline: four checks would fail and the error is that of the status
C23_Witness ==
    \E f \in Farmers, id \in PolicyIds, v \in Payments :
        /\ Created(id)
        /\ policies[id].status = Paused
        /\ now > policies[id].subscriptionDeadline
        /\ v # policies[id].premium
        /\ balance[f] >= v
        /\ policies[id].lastSubscribedSeason[f] = policies[id].season
        /\ <<f, policies[id].season>> \in farmerSeasonFullCover
        /\ SubscribeError(f, id, v) = ErrNotActive

\* C24: a full-cover flag that is true stays true over every step, whatever
\* the operation; the flags change only in a step that adds a subscriber to a
\* full-season policy; and the flag of a past season is still set for every
\* farmer whose last subscription to a full-season policy was in that season,
\* after the policy has moved on to a later season.
C24_FlagNeverCleared ==
    /\ [](\A f \in Farmers, id \in PolicyIds :
            (/\ Created(id)
             /\ policies[id].coversFullSeason
             /\ policies[id].lastSubscribedSeason[f] > 0)
               => <<f, policies[id].lastSubscribedSeason[f]>> \in farmerSeasonFullCover)
    /\ [][/\ \A fs \in farmerSeasonFullCover : fs \in farmerSeasonFullCover'
          /\ farmerSeasonFullCover' # farmerSeasonFullCover
               => \E id \in PolicyIds :
                     /\ policies[id].coversFullSeason
                     /\ Len(policies'[id].currentSubscribers)
                          = Len(policies[id].currentSubscribers) + 1]_vars

\* C24 witness: a full-season policy was reset after a farmer subscribed to
\* it: the policy is in season 2, its subscriber list is empty, and the
\* farmer's flag of season 1 is still set
C24_Witness ==
    \E f \in Farmers, id \in PolicyIds :
        /\ Created(id)
        /\ policies[id].coversFullSeason
        /\ policies[id].season = 2
        /\ policies[id].currentSubscribers = <<>>
        /\ policies[id].lastSubscribedSeason[f] = 1
        /\ <<f, 1>> \in farmerSeasonFullCover
        /\ <<f, 2>> \notin farmerSeasonFullCover

\* C25: the policy history of a farmer is append-only: over every step it is
\* either unchanged or longer by exactly one entry at the end, the id of the
\* policy whose subscriber list gained the farmer in that step, and every step
\* that adds the farmer to a subscriber list appends that id; a policy id
\* occurs in the history at most once per season the policy has had, and at
\* least once when the farmer has subscribed to it; and the history has one
\* entry per premium the Treasury has credited to the farmer.
C25_FarmerPoliciesAppendOnly ==
    /\ [](\A f \in Farmers :
            /\ \A id \in Range(getFarmerPolicies(f)) :
                  /\ Created(id)
                  /\ Occurrences(getFarmerPolicies(f), id) <= policies[id].season
                  /\ policies[id].lastSubscribedSeason[f] > 0
            /\ \A id \in PolicyIds :
                  (Created(id) /\ policies[id].lastSubscribedSeason[f] > 0)
                     => id \in Range(getFarmerPolicies(f))
            /\ PremiumsOf(getFarmerPolicies(f)) = farmerBalances[f])
    /\ [][\A f \in Farmers :
            /\ \/ getFarmerPolicies(f)' = getFarmerPolicies(f)
               \/ \E id \in PolicyIds :
                     /\ getFarmerPolicies(f)' = Append(getFarmerPolicies(f), id)
                     /\ policies'[id].currentSubscribers
                          = Append(policies[id].currentSubscribers, f)
            /\ \A id \in PolicyIds :
                  policies'[id].currentSubscribers
                       = Append(policies[id].currentSubscribers, f)
                     => getFarmerPolicies(f)' = Append(getFarmerPolicies(f), id)]_vars

\* C25 witness: a farmer subscribed to the same policy in season 1 and, after
\* its reset, in season 2: the history lists the policy twice
C25_Witness ==
    \E f \in Farmers, id \in PolicyIds :
        /\ Created(id)
        /\ policies[id].season = 2
        /\ policies[id].lastSubscribedSeason[f] = 2
        /\ f \in Range(policies[id].currentSubscribers)
        /\ getFarmerPolicies(f) = <<id, id>>

C27_MarkMovesNoFunds ==
    [][\A id \in PolicyIds :
          \/ /\ \A a \in Accounts : balance'[a] = balance[a]
             /\ farmerBalances' = farmerBalances
             /\ totalCollected' = totalCollected
             /\ policies'[id].currentSubscribers = policies[id].currentSubscribers
             /\ policies'[id].season = policies[id].season
             /\ policies' = [policies EXCEPT ![id].status = policies'[id].status]
             /\ UNCHANGED <<nextPolicyId, payoutEngine, farmerPolicies,
                            farmerSeasonFullCover, authorizedManagers>>
          \/ \A c \in EOAs : ~MarkPolicyAsPayout(c, id)]_vars

\* C27 witness: a policy in its first season is PayoutTriggered with a
\* subscriber; the premiums are all in the Treasury, credited to the farmers,
\* and the PolicyManager holds nothing
C27_Witness ==
    \E id \in PolicyIds, f \in Farmers :
        /\ Created(id)
        /\ policies[id].status = PayoutTriggered
        /\ policies[id].season = 1
        /\ f \in Range(policies[id].currentSubscribers)
        /\ farmerBalances[f] > 0
        /\ balance[f] = InitialFunds - farmerBalances[f]
        /\ balance[TreasuryAddr] = totalCollected
        /\ totalCollected > 0
        /\ balance[PolicyManagerAddr] = 0

\* C28: over every step the Treasury's record of each farmer and its
\* totalCollected are at least what they were; a step that lowers the funds
\* held by the Treasury (a withdraw or a withdrawAll) leaves both exactly as
\* they were.
C28_CountersNeverDecrease ==
    [][/\ \A f \in Farmers : farmerBalances'[f] >= farmerBalances[f]
       /\ totalCollected' >= totalCollected
       /\ balance'[TreasuryAddr] < balance[TreasuryAddr]
            => /\ farmerBalances' = farmerBalances
               /\ totalCollected' = totalCollected
       /\ \A c \in EOAs, to \in Recipients :
            \/ farmerBalances' = farmerBalances /\ totalCollected' = totalCollected
            \/ /\ ~WithdrawAll(c, to)
               /\ \A a \in Payments : ~Withdraw(c, to, a)]_vars

\* C28 witness: everything deposited has been withdrawn: the Treasury holds
\* nothing, while totalCollected and the record of a farmer still show the
\* deposits
C28_Witness ==
    \E f \in Farmers :
        /\ balance[TreasuryAddr] = 0
        /\ balance[Owner] > 0
        /\ farmerBalances[f] > 0
        /\ totalCollected >= farmerBalances[f]

C30_SinglePayoutAuthority ==
    /\ [](\A id \in PolicyIds :
            Created(id)
               => /\ \A c \in EOAs :
                       c # payoutEngine => MarkPolicyAsPayoutError(c, id) = ErrOnlyEngine
                  /\ payoutEngine = ZeroAddr
                       => \A c \in EOAs : MarkPolicyAsPayoutError(c, id) = ErrOnlyEngine
                  /\ Cardinality({c \in EOAs :
                         MarkPolicyAsPayoutError(c, id) # ErrOnlyEngine}) <= 1)
    /\ [][\A b \in PayoutEngines :
            (SetPayoutEngine(Owner, b) /\ payoutEngine # b)
               => /\ payoutEngine' = b
                  /\ \A id \in PolicyIds :
                       Created(id)
                          => /\ \A a \in EOAs \ {b} :
                                  (MarkPolicyAsPayoutError(a, id))' = ErrOnlyEngine
                             /\ (MarkPolicyAsPayoutError(b, id))' # ErrOnlyEngine]_vars

\* C30 witness: the policy was marked for payout by an engine and then reset,
\* and the engine is now farmerB: on the Active policy farmerB's call is
\* accepted, farmerA's and the owner's are refused as unauthorized
C30_Witness ==
    \E id \in PolicyIds :
        /\ Created(id)
        /\ policies[id].status = Active
        /\ policies[id].season = 2
        /\ payoutEngine = FarmerB
        /\ MarkPolicyAsPayoutError(FarmerB, id) = OK
        /\ MarkPolicyAsPayoutError(FarmerA, id) = ErrOnlyEngine
        /\ MarkPolicyAsPayoutError(Owner, id) = ErrOnlyEngine

\* C31: when the recipient rejects the release, withdraw and withdrawAll fail
\* with the transfer error: the owner's call towards the Treasury itself, which
\* accepts no ether, gets that error whenever the earlier checks pass, and
\* leaves every variable as it was; when a recipient running its own code
\* rejects the release, the funds of the Treasury and of the recipient are
\* again what they were before the call, the guard is released, and the owner's
\* withdraw of the same amount to an accepting account is then accepted.
C31_FailedRelease ==
    /\ [](reentrancyStatus = NotEntered
            => /\ \A a \in Payments :
                    a <= balance[TreasuryAddr]
                       => WithdrawError(Owner, TreasuryAddr, a) = ErrTransfer
               /\ balance[TreasuryAddr] > 0
                    => WithdrawAllError(Owner, TreasuryAddr) = ErrTransfer)
    /\ [][/\ \A a \in Payments :
               (WithdrawError(Owner, TreasuryAddr, a) = ErrTransfer
                   /\ Withdraw(Owner, TreasuryAddr, a))
                  => UNCHANGED vars
          /\ (WithdrawAllError(Owner, TreasuryAddr) = ErrTransfer
                 /\ WithdrawAll(Owner, TreasuryAddr))
               => UNCHANGED vars
          /\ ReceiveReturns(FALSE)
               => \A frame \in {inFlight[Len(inFlight)]} :
                  /\ balance'[TreasuryAddr] = frame.before[TreasuryAddr]
                  /\ balance'[frame.to] = frame.before[frame.to]
                  /\ reentrancyStatus' = NotEntered
                  /\ \A to \in Callers :
                       (WithdrawError(Owner, to, frame.amount))' = OK]_vars

\* C31 witness: the owner has withdrawn part of the funds; with the guard
\* released and funds still held, a withdraw to the Treasury itself ends in the
\* transfer error, and a withdraw of the same amount to the owner is accepted
C31_Witness ==
    /\ inFlight = <<>>
    /\ reentrancyStatus = NotEntered
    /\ balance[Owner] > 0
    /\ balance[TreasuryAddr] > 0
    /\ WithdrawError(Owner, TreasuryAddr, 1) = ErrTransfer
    /\ WithdrawAllError(Owner, TreasuryAddr) = ErrTransfer
    /\ WithdrawError(Owner, Owner, 1) = OK

\* C32: calls are transactions applied one after another, so an interleaving
\* of subscribe attempts is an order of the calls.  Whatever the order: no
\* farmer holds a subscription of the same season in two different full-season
\* policies; a step in which a farmer subscribes keeps every earlier
\* subscriber of the policy and adds the farmer at the end; it leaves the
\* outcome of every attempt of every other farmer on every policy as it was
\* (so two farmers are both admitted in either order); and after a farmer
\* subscribed to a full-season policy, the farmer's attempt on any other
\* full-season policy of the same season is refused.
C32_OrderIndependence ==
    /\ [](\A f \in Farmers, p \in PolicyIds, q \in PolicyIds :
            (/\ p # q /\ Created(p) /\ Created(q)
             /\ policies[p].coversFullSeason /\ policies[q].coversFullSeason
             /\ policies[p].season = policies[q].season)
               => ~(/\ policies[p].lastSubscribedSeason[f] = policies[p].season
                    /\ policies[q].lastSubscribedSeason[f] = policies[q].season))
    /\ [][\A f \in Farmers, p \in PolicyIds :
            (/\ Created(p)
             /\ policies'[p].lastSubscribedSeason[f] # policies[p].lastSubscribedSeason[f])
               => /\ policies'[p].currentSubscribers
                       = Append(policies[p].currentSubscribers, f)
                  /\ \A g \in Farmers \ {f}, q \in PolicyIds, v \in Payments :
                       balance[g] >= v
                          => (SubscribeError(g, q, v))' = SubscribeError(g, q, v)
                  /\ \A q \in PolicyIds \ {p}, v \in Payments :
                       (/\ Created(q)
                        /\ policies[p].coversFullSeason /\ policies[q].coversFullSeason
                        /\ policies[p].season = policies[q].season)
                          => (SubscribeError(f, q, v))' # OK]_vars

\* C32 witness: both farmers are subscribers of one full-season policy, in
\* the order of their calls, and each is refused by the other full-season
\* policy of the same season, to which every other check would admit them
C32_Witness ==
    \E p \in PolicyIds, q \in PolicyIds, f \in Farmers, g \in Farmers :
        /\ p # q /\ f # g
        /\ Created(p) /\ Created(q)
        /\ policies[p].coversFullSeason /\ policies[q].coversFullSeason
        /\ policies[p].season = policies[q].season
        /\ policies[p].currentSubscribers = <<f, g>>
        /\ policies[q].currentSubscribers = <<>>
        /\ SubscribeError(f, q, policies[q].premium) = ErrFullTwice
        /\ SubscribeError(g, q, policies[q].premium) = ErrFullTwice

\* C33: a subscribe call that succeeds emits exactly one Subscribed signal,
\* carrying the caller, the policy id and the season the policy had when the
\* call was made, which is the season recorded for the farmer; a subscribe call
\* that fails emits none; so in every subscribe step the signals emitted are
\* as many as the entries the step appends to the farmer's policy history, and
\* the signal names the appended policy id.
C33_SubscribedSignal ==
    /\ [](\A f \in Farmers, id \in Ids, v \in Payments :
            /\ SubscribeError(f, id, v) # OK => SubscribedSignals(f, id, v) = <<>>
            /\ SubscribeError(f, id, v) = OK => Len(SubscribedSignals(f, id, v)) = 1)
    /\ [][\/ UNCHANGED vars
          \/ \A f \in Farmers, id \in Ids, v \in Payments :
                 \/ \A signals \in {SubscribedSignals(f, id, v)} :
                       /\ Len(signals) = Len(farmerPolicies'[f]) - Len(farmerPolicies[f])
                       /\ signals # <<>>
                            => /\ signals[1].farmer = f
                               /\ signals[1].policyId = farmerPolicies'[f][Len(farmerPolicies'[f])]
                               /\ signals[1].season = policies[id].season
                               /\ signals[1].season = policies'[id].season
                               /\ signals[1].season = policies'[id].lastSubscribedSeason[f]
                               /\ policies'[id].currentSubscribers
                                    = Append(policies[id].currentSubscribers, signals[1].farmer)
                 \/ ~Subscribe(f, id, v)]_vars

\* C33 witness: a farmer subscribed to a policy in its second season, so the
\* signal of that call carried season 2; the farmer's next call on the policy
\* fails and emits nothing, the other farmer's call would emit one signal
C33_Witness ==
    \E f \in Farmers, g \in Farmers, id \in PolicyIds :
        /\ Created(id)
        /\ policies[id].season = 2
        /\ policies[id].currentSubscribers = <<f>>
        /\ farmerPolicies[f] # <<>>
        /\ SubscribedSignals(f, id, policies[id].premium) = <<>>
        /\ SubscribedSignals(g, id, policies[id].premium)
              = <<[farmer |-> g, policyId |-> id, season |-> 2]>>

\* C34: in every reachable state totalCollected is the sum of farmerBalances
\* over the farmers, and the funds held by the Treasury are totalCollected
\* minus everything released by withdraw and withdrawAll, which is what the
\* accounts that received releases (the owner, the PolicyManager and the zero
\* address, none of which held or spent anything else) hold; the amount
\* released so far never goes down.
C34_Accounting ==
    /\ [](/\ totalCollected = Total(farmerBalances, Farmers)
          /\ balance[TreasuryAddr]
               = totalCollected - (balance[Owner] + balance[PolicyManagerAddr]
                                                   + balance[ZeroAddr])
          /\ balance[TreasuryAddr] <= totalCollected)
    /\ [][totalCollected' - balance'[TreasuryAddr]
             >= totalCollected - balance[TreasuryAddr]]_vars

\* C34 witness: both farmers have deposits on record, three units in all, of
\* which the owner has withdrawn a part and the Treasury still holds the rest
C34_Witness ==
    /\ farmerBalances[FarmerA] > 0
    /\ farmerBalances[FarmerB] > 0
    /\ totalCollected = 3
    /\ balance[Owner] > 0
    /\ balance[TreasuryAddr] > 0
    /\ balance[TreasuryAddr] + balance[Owner] = totalCollected

\* C35: in every reachable state and for every policy, no farmer occurs twice
\* in currentSubscribers, the farmers in it are exactly those whose
\* lastSubscribedSeason is the policy's season, and the subscriberCount of
\* getPolicyDetails is their number; over every step the count is unchanged,
\* or grows by one with a farmer subscribing in the current season, or falls to
\* zero with the season advancing.
C35_CurrentSubscribers ==
    /\ [](\A id \in PolicyIds :
            Created(id)
               => /\ \A f \in Farmers :
                       Occurrences(policies[id].currentSubscribers, f) <= 1
                  /\ Range(policies[id].currentSubscribers)
                       = {f \in Farmers :
                             policies[id].lastSubscribedSeason[f] = policies[id].season}
                  /\ getPolicyDetails(id).subscriberCount
                       = Cardinality({f \in Farmers :
                             policies[id].lastSubscribedSeason[f] = policies[id].season}))
    /\ [][\A id \in PolicyIds :
            Created(id)
               => \A before \in {getPolicyDetails(id).subscriberCount} :
                     \/ (getPolicyDetails(id).subscriberCount)' = before
                     \/ /\ (getPolicyDetails(id).subscriberCount)' = before + 1
                        /\ policies'[id].season = policies[id].season
                        /\ \E f \in Farmers :
                              /\ policies[id].lastSubscribedSeason[f] < policies[id].season
                              /\ policies'[id].lastSubscribedSeason[f] = policies[id].season
                     \/ /\ (getPolicyDetails(id).subscriberCount)' = 0
                        /\ policies'[id].season = policies[id].season + 1]_vars

\* C35 witness: a policy had two subscribers in season 1 and was reset; one of
\* them subscribed again in season 2, and the count reported is 1
C35_Witness ==
    \E id \in PolicyIds, f \in Farmers, g \in Farmers :
        /\ Created(id)
        /\ policies[id].season = 2
        /\ policies[id].lastSubscribedSeason[f] = 2
        /\ policies[id].lastSubscribedSeason[g] = 1
        /\ policies[id].currentSubscribers = <<f>>
        /\ getPolicyDetails(id).subscriberCount = 1

\* C36: (as claimed) a policy is marked for payout at most once per season:
\* policy 1 has been marked in season 1 with farmerB as its subscriber, and no
\* later step marks it again, turning its status to PayoutTriggered, while it
\* is still in season 1.
C36_MarkedOncePerSeason ==
    [][~(/\ policies[1].status # PayoutTriggered
         /\ policies'[1].status = PayoutTriggered
         /\ policies'[1].season = 1)]_vars

C38_ZeroPremium ==
    /\ [](\A id \in PolicyIds :
            (Created(id) /\ policies[id].premium = 0)
               => /\ policies[id].currentSubscribers = <<>>
                  /\ \A f \in Farmers :
                        /\ policies[id].lastSubscribedSeason[f] = 0
                        /\ \A v \in Payments : SubscribeError(f, id, v) # OK
                        /\ (/\ policies[id].status = Active
                            /\ now <= policies[id].subscriptionDeadline
                            /\ ~FullCover(f, policies[id].season))
                              => /\ SubscribeError(f, id, 0) \in DepositErrors
                                 /\ PolicyManagerAddr \in authorizedManagers
                                      => SubscribeError(f, id, 0) = ErrZeroDeposit)
    /\ [][\A id \in PolicyIds :
            (Created(id) /\ policies[id].premium = 0)
               => policies'[id].currentSubscribers = <<>>]_vars

\* C38 witness: a policy with premium 0 is Active before its deadline and the
\* PolicyManager is an authorized manager; a farmer who holds funds is refused
\* with the zero-deposit error when paying 0 and with the payment error when
\* paying 1
C38_Witness ==
    \E free \in PolicyIds, f \in Farmers :
        /\ Created(free)
        /\ policies[free].premium = 0
        /\ policies[free].status = Active
        /\ now <= policies[free].subscriptionDeadline
        /\ PolicyManagerAddr \in authorizedManagers
        /\ balance[f] >= 1
        /\ SubscribeError(f, free, 0) = ErrZeroDeposit
        /\ SubscribeError(f, free, 1) = ErrPremium

\* C39: while the season of a policy is 0 every subscribe to it is refused,
\* with the once-per-season error when the checks before that one pass, and
\* its subscriber list is empty; a subscriber is added only to a policy whose
\* season is at least 1; and on a policy whose season is at least 1 the
\* once-per-season check passes for every farmer who never subscribed to it.
C39_SeasonZero ==
    /\ [](\A id \in PolicyIds, f \in Farmers, v \in Payments :
            Created(id)
               => /\ policies[id].season = 0
                       => /\ policies[id].currentSubscribers = <<>>
                          /\ SubscribeError(f, id, v) # OK
                          /\ (/\ policies[id].status = Active
                              /\ now <= policies[id].subscriptionDeadline
                              /\ v = policies[id].premium)
                                => SubscribeError(f, id, v) = ErrDuplicate
                  /\ (policies[id].season >= 1 /\ policies[id].lastSubscribedSeason[f] = 0)
                       => SubscribeError(f, id, v) # ErrDuplicate)
    /\ [][\A id \in PolicyIds :
            (Created(id)
                /\ Len(policies'[id].currentSubscribers)
                     > Len(policies[id].currentSubscribers))
               => policies[id].season >= 1]_vars

\* C39 witness: a policy is in season 0, Active and before its deadline, the
\* PolicyManager is an authorized manager, and a farmer who holds the premium
\* and pays it is refused with the once-per-season error
C39_Witness ==
    \E zero \in PolicyIds, f \in Farmers :
        /\ Created(zero)
        /\ policies[zero].season = 0
        /\ policies[zero].status = Active
        /\ now <= policies[zero].subscriptionDeadline
        /\ PolicyManagerAddr \in authorizedManagers
        /\ balance[f] >= policies[zero].premium
        /\ SubscribeError(f, zero, policies[zero].premium) = ErrDuplicate

\* C40: the PolicyManager keeps none of the premiums and sends nothing out:
\* a subscribe step takes the premium from the farmer, adds exactly the
\* premium to the funds held by the Treasury and leaves the PolicyManager's
\* balance as it was; and over every step the PolicyManager's balance is at
\* least what it was, whatever was transferred to it directly.
C40_PolicyManagerFunds ==
    [][\/ UNCHANGED vars
       \/ /\ balance'[PolicyManagerAddr] >= balance[PolicyManagerAddr]
          /\ \A f \in Farmers, id \in PolicyIds :
               \/ /\ balance'[TreasuryAddr] = balance[TreasuryAddr] + policies[id].premium
                  /\ balance'[f] = balance[f] - policies[id].premium
                  /\ balance'[PolicyManagerAddr] = balance[PolicyManagerAddr]
               \/ \A v \in Payments : ~Subscribe(f, id, v)]_vars

\* C40 witness: the PolicyManager holds ether that was transferred to it
\* directly, a farmer has subscribed, and the premiums collected are all in
\* the Treasury
C40_Witness ==
    \E id \in PolicyIds, f \in Farmers :
        /\ Created(id)
        /\ f \in Range(policies[id].currentSubscribers)
        /\ balance[PolicyManagerAddr] > 0
        /\ totalCollected > 0
        /\ balance[TreasuryAddr] = totalCollected
        /\ balance[Owner] = 0

====
